---- MODULE Spec2Model ----
(***************************************************************************)
(* Model of the Nagini runtime core (src/nagini/compiler/c/builtin.h,      *)
(* pool.h): the object hash table (Dict), the reference-count engine and   *)
(* the allocation provenance of values and of their owned buffers.         *)
(***************************************************************************)
EXTENDS Integers, Sequences, FiniteSets, TLC

(***************************************************************************)
(* Type tags (ObjectType enum).                                            *)
(***************************************************************************)
OBJ_TYPE_BASE == 0
OBJ_TYPE_INSTANCE == 1
OBJ_TYPE_INT == 2
OBJ_TYPE_FLOAT == 3
OBJ_TYPE_BYTES == 4
OBJ_TYPE_STRING == 5
OBJ_TYPE_TUPLE == 6
OBJ_TYPE_LIST == 7
OBJ_TYPE_DICT == 8
OBJ_TYPE_SET == 9
OBJ_TYPE_FUNCTION == 10

DICT_INITIAL_CAPACITY == 2
DICT_LOAD_FACTOR == 85
\* sizeof(dict_entry_t): two pointers, an int64 hash, a uint32 psl, padding
SizeofDictEntry == 32
\* sizeof(Object* )
SizeofPtr == 8

NULL == 0

(***************************************************************************)
(* The size-class table of init_runtime and the lookup of alloc().         *)
(***************************************************************************)
block_sizes ==
  << 8, 16, 24, 32, 40, 48, 56, 64, 72, 80, 88, 96, 104, 112, 120, 128,
     144, 160, 176, 192, 208, 224, 240, 256, 272, 288, 304, 320, 336, 352,
     368, 384, 416, 448, 480, 512, 576, 640, 704, 768, 832, 896, 960, 1024,
     1152, 1280, 1408, 1536, 1664, 1792, 1920, 2048, 4096, 8192, 16384,
     32768, 65536, 131072, 262144, 524288, 1048576, 2097152, 4194304,
     8388608 >>

\* The allocators a block can come from and go back to: the system
\* allocator (malloc/free), one of the 64 size classes, or the pool
\* dedicated to one variant of value.
SysAlloc == [kind |-> "system", id |-> 0]
SizeClass(id) == [kind |-> "size_class", id |-> id]
VariantPool(tag) == [kind |-> "variant", id |-> tag]
NoAlloc == [kind |-> "none", id |-> 0]

\* an alloc() that takes the last class that fits
alloc_LastFit(size) ==
  LET fits == {i \in 1..Len(block_sizes) : size <= block_sizes[i]}
      id   == (CHOOSE i \in fits : \A j \in fits : i >= j) - 1
  IN  IF fits = {}
        THEN [is_manual |-> 1, pool_id |-> 0, from |-> SysAlloc]
        ELSE [is_manual |-> 0, pool_id |-> id, from |-> SizeClass(id)]

\* alloc(): the first class (index 0..63) whose payload size fits, else
\* malloc.  is_manual and pool_id are the out-parameters, from is the
\* allocator the returned block comes from.
alloc(size) ==
  LET fits == {i \in 1..Len(block_sizes) : size <= block_sizes[i]}
      id   == (CHOOSE i \in fits : \A j \in fits : i <= j) - 1
  IN  IF fits = {}
        THEN [is_manual |-> 1, pool_id |-> 0, from |-> SysAlloc]
        ELSE [is_manual |-> 0, pool_id |-> id, from |-> SizeClass(id)]

\* del(): the allocator a (is_manual, pool_id) pair routes a block to
del(is_manual, pool_id) ==
  IF is_manual = 1 THEN SysAlloc
  ELSE IF pool_id >= 0 /\ pool_id < Len(block_sizes) THEN SizeClass(pool_id)
  ELSE NoAlloc

(***************************************************************************)
(* Objects used as dict keys and values.  The fields below are written by  *)
(* the constructors (alloc_int, alloc_float, alloc_str, alloc_object) and  *)
(* never change afterwards, so they are a table indexed by the pointer.    *)
(* A float is given by its value when that value is an integer.            *)
(***************************************************************************)
\* dict_set and dict_del calls in one run
MaxOps == 4

\* Pointers 1..5 are the keys.  With mask 7 the keys 1..4 have home slot 0
\* and key 5 has home slot 2; keys 1 and 2 are two int objects of value 0.
ObjTable ==
  << [tag |-> OBJ_TYPE_INT,    value |-> 0, hash |-> 0],
     [tag |-> OBJ_TYPE_INT,    value |-> 0, hash |-> 0],
     [tag |-> OBJ_TYPE_FLOAT,  value |-> 0, hash |-> 0],
     [tag |-> OBJ_TYPE_STRING, value |-> 0, hash |-> 8],
     [tag |-> OBJ_TYPE_INT,    value |-> 2, hash |-> 0] >>

Keys == 1..Len(ObjTable)
Vals == {Len(ObjTable) + 1, Len(ObjTable) + 2}
Objs == Keys \cup Vals

\* the double that compares unequal to every double, itself included
NaN == 999999

PY_HASH_INF == 3430008

\* Objects of every variant that can be handed to a dict as a key, at the
\* pointers KeyBase + 1 ...  value is the int or double value (for an
\* instance: the int its __hash__ method returns), hash the cached hash of
\* a string or bytes, items the item pointers of a tuple, hash_method the
\* __hash__ member of an instance.  A bool is an int object of value 0 or 1.
KeyBase == 10

KeyObj(tag, value, h, items, hash_method) ==
  [tag |-> tag, value |-> value, hash |-> h, items |-> items,
   hash_method |-> hash_method]

KeyTable ==
  << KeyObj(OBJ_TYPE_INT, 1, 0, <<>>, NULL),
     KeyObj(OBJ_TYPE_INT, 1, 0, <<>>, NULL),
     KeyObj(OBJ_TYPE_INT, 1, 0, <<>>, NULL),
     KeyObj(OBJ_TYPE_INT, -1, 0, <<>>, NULL),
     KeyObj(OBJ_TYPE_INT, -2, 0, <<>>, NULL),
     KeyObj(OBJ_TYPE_FLOAT, 1, 0, <<>>, NULL),
     KeyObj(OBJ_TYPE_FLOAT, 1, 0, <<>>, NULL),
     KeyObj(OBJ_TYPE_FLOAT, NaN, 0, <<>>, NULL),
     KeyObj(OBJ_TYPE_FLOAT, -1, 0, <<>>, NULL),
     KeyObj(OBJ_TYPE_STRING, 0, 8, <<>>, NULL),
     KeyObj(OBJ_TYPE_STRING, 0, 8, <<>>, NULL),
     KeyObj(OBJ_TYPE_STRING, 0, 1, <<>>, NULL),
     KeyObj(OBJ_TYPE_TUPLE, 0, 0, <<KeyBase + 1>>, NULL),
     KeyObj(OBJ_TYPE_TUPLE, 0, 0, <<KeyBase + 1>>, NULL),
     KeyObj(OBJ_TYPE_BYTES, 0, 5, <<>>, NULL),
     KeyObj(OBJ_TYPE_BYTES, 0, 5, <<>>, NULL),
     KeyObj(OBJ_TYPE_LIST, 0, 0, <<>>, NULL),
     KeyObj(OBJ_TYPE_INSTANCE, 0, 0, <<>>, NULL),
     KeyObj(OBJ_TYPE_INSTANCE, 1, 0, <<>>, 1),
     KeyObj(OBJ_TYPE_INSTANCE, 1, 0, <<>>, 1),
     KeyObj(OBJ_TYPE_FUNCTION, 0, 0, <<>>, NULL) >>

KeyObjs == (KeyBase + 1)..(KeyBase + Len(KeyTable))

\* the names add_list_functions binds, in the order of its calls; the
\* string objects of runtime->builtin_names for them are at the pointers
\* NameObj(1) ..., and MethodHash is their cached siphash: six different
\* values, four of which share the home slot under every mask up to 7
Methods == <<"append", "pop", "remove", "clear", "index", "extend">>
MethodHash == <<8, 16, 3, 24, 5, 32>>
NameObj(i) == KeyBase + Len(KeyTable) + i
NameObjs == {NameObj(i) : i \in 1..Len(Methods)}

\* the string object of a name no list binds ("sort"), behind the six
\* function objects, and its cached siphash, which has the home index of
\* "append" and "clear"
AbsentName == NameObj(Len(Methods)) + Len(Methods) + 1
AbsentHash == MethodHash[1] + MethodHash[Len(Methods)]

\* the string object builtin_names.__len__ and its cached hash
LenName == AbsentName + 1
LenHash == AbsentHash + 1

\* the fields of the object at pointer o (values are plain base objects)
Attr(o) ==
  IF o \in Keys THEN ObjTable[o]
  ELSE IF o \in KeyObjs THEN KeyTable[o - KeyBase]
  ELSE IF o \in NameObjs
    THEN [tag |-> OBJ_TYPE_STRING, value |-> 0,
          hash |-> MethodHash[o - NameObj(1) + 1]]
  ELSE IF o = AbsentName
    THEN [tag |-> OBJ_TYPE_STRING, value |-> 0, hash |-> AbsentHash]
  ELSE IF o = LenName
    THEN [tag |-> OBJ_TYPE_STRING, value |-> 0, hash |-> LenHash]
  ELSE [tag |-> OBJ_TYPE_BASE, value |-> 0, hash |-> 0]

\* the address a pointer converts to in (int64_t)(uintptr_t)obj
AddrOf(o) == 4096 + 64 * o

VARIABLES
  rc,        \* __refcount__ of every object
  freed,     \* the object's block has been released (teardown has run)
  held,      \* references the generated code holds on the object
  uaf,       \* a DECREF has written to a released block
  d,         \* the Dict under test
  buf_src,   \* the allocator that produced d.entries
  released,  \* buffers released so far: what, produced by, released to
  amap,      \* the map the dict stands for: key class -> value or NULL
  nops,      \* dict_set and dict_del calls made so far
  lastdel    \* what the last call did if it was a dict_del: found, slot, shifts

dvars == <<rc, freed, held, uaf, d, buf_src, released, amap, nops, lastdel>>

VARIABLES
  heap,      \* the values constructed so far, by address
  hheld,     \* references the generated code holds on each value
  hlog,      \* releases so far: what, of which variant, produced by, sent to
  huaf,      \* an INCREF or DECREF has touched a released block
  hnops      \* append and extend calls made so far

hvars == <<heap, hheld, hlog, huaf, hnops>>

VARIABLES
  kq,        \* a pair of key objects and what hash and the dict make of it
  hmax,      \* how many values the run constructs
  exited,    \* the message the process ended with in exit(1), or NoExit
  pool,      \* a dynamic_pool_t, its pages and the blocks it has handed out
  oom,       \* the last request the system allocator refused, and how the
             \* operation that made it ended
  aq,        \* a request size and what alloc() and del() make of it
  symbol_table, \* the hmap_t of the runtime, with the map it stands for
  symreg,    \* the names get_symbol_id was called with and what it returned
  ls,        \* a List with its items in order, and the refcounts of elements
  fq         \* the arguments of a call of a function and its result

\* the variables that dict steps and the steps on values leave as they are
xvars == <<kq, hmax, exited, pool, oom, aq, symbol_table, symreg, ls, fq>>

vars == <<dvars, hvars, xvars>>

(***************************************************************************)
(* hash_float, hash and ObjectsEqual.                                      *)
(***************************************************************************)
\* hash_float on a NaN or an integer-valued finite double
hash_float(v) ==
  IF v = NaN THEN -PY_HASH_INF
  ELSE IF v = 0 THEN 0
  ELSE IF v = -1 THEN -2
  ELSE v

\* hash(); the tuple loop is h = h * 31 + hash(items[i]) from h = 17
RECURSIVE hash(_)
RECURSIVE TupleHashLoop(_, _, _)
TupleHashLoop(items, i, h) ==
  IF i > Len(items) THEN h
  ELSE TupleHashLoop(items, i + 1, h * 31 + hash(items[i]))

hash(o) ==
  IF o = NULL THEN 0
  ELSE LET a == Attr(o) IN
    CASE a.tag = OBJ_TYPE_INT    -> (IF a.value = -1 THEN -2 ELSE a.value)
      [] a.tag = OBJ_TYPE_FLOAT  -> hash_float(a.value)
      [] a.tag = OBJ_TYPE_TUPLE  -> TupleHashLoop(a.items, 1, 17)
      [] a.tag = OBJ_TYPE_STRING -> a.hash
      [] a.tag = OBJ_TYPE_BYTES  -> a.hash
      [] a.tag = OBJ_TYPE_INSTANCE ->
           IF a.hash_method # NULL
             THEN (IF a.value = -1 THEN -2 ELSE a.value)
           ELSE AddrOf(o)
      [] OTHER                   -> AddrOf(o)

\* f1->__value__ == f2->__value__ on doubles
FloatEq(v1, v2) == v1 # NaN /\ v2 # NaN /\ v1 = v2

\* an ObjectsEqual whose switch has no float case
KeysEqual_FloatByPointer(k1, k2) ==
  IF k1 = NULL \/ k2 = NULL THEN FALSE
  ELSE LET a1 == Attr(k1)
           a2 == Attr(k2)
       IN IF a1.tag # a2.tag THEN FALSE
          ELSE CASE a1.tag = OBJ_TYPE_INT    -> a1.value = a2.value
                 [] a1.tag = OBJ_TYPE_STRING -> a1.hash = a2.hash
                 [] OTHER                    -> k1 = k2

\* ObjectsEqual on two objects whose blocks are live
KeysEqual(k1, k2) ==
  IF k1 = NULL \/ k2 = NULL THEN FALSE
  ELSE LET a1 == Attr(k1)
           a2 == Attr(k2)
       IN IF a1.tag # a2.tag THEN FALSE
          ELSE CASE a1.tag = OBJ_TYPE_INT    -> a1.value = a2.value
                 [] a1.tag = OBJ_TYPE_FLOAT  -> FloatEq(a1.value, a2.value)
                 [] a1.tag = OBJ_TYPE_STRING -> a1.hash = a2.hash
                 [] OTHER                    -> k1 = k2

\* ObjectsEqual as the probe loops call it: fr is the set of released
\* blocks; reading the tag and value of a released block is a read of freed
\* memory, whose outcome u is not determined by the program.
ObjectsEqual(k1, k2, fr, u) ==
  IF k1 = NULL \/ k2 = NULL THEN FALSE
  ELSE IF k1 \in fr \/ k2 \in fr THEN u
  ELSE KeysEqual(k1, k2)

\* (size_t)h & mask for a mask of the form 2^n - 1
HomeIdx(h, mask) == h % (mask + 1)

(***************************************************************************)
(* INCREF and DECREF on the objects of the table.  The state they act on   *)
(* is the record [rc, freed, uaf].  The keys and values here own no        *)
(* children, so their teardown is the release of their block.              *)
(***************************************************************************)
INCREF(st, o) ==
  IF o = NULL THEN st
  ELSE [st EXCEPT !.rc[o] = @ + 1]

\* A DECREF of a released block decrements freed memory, which is no longer
\* the object's: rc keeps the count the object had when it was torn down.
DECREF(st, o) ==
  IF o = NULL THEN st
  ELSE IF o \in st.freed
    THEN [st EXCEPT !.uaf = TRUE]
  ELSE IF st.rc[o] - 1 = 0
    THEN [st EXCEPT !.rc[o] = 0, !.freed = @ \cup {o}]
  ELSE [st EXCEPT !.rc[o] = @ - 1]

RefState == [rc |-> rc, freed |-> freed, uaf |-> uaf]

(***************************************************************************)
(* The Dict.                                                               *)
(***************************************************************************)
EmptyEntry == [key |-> NULL, value |-> NULL, hash |-> 0, psl |-> 0]

\* a zeroed entries buffer of the given capacity
ZeroedEntries(capacity) == [i \in 0..(capacity - 1) |-> EmptyEntry]

alloc_dict ==
  [ live      |-> TRUE,
    entries   |-> ZeroedEntries(DICT_INITIAL_CAPACITY),
    capacity  |-> DICT_INITIAL_CAPACITY,
    count     |-> 0,
    mask      |-> DICT_INITIAL_CAPACITY - 1,
    threshold |-> (DICT_INITIAL_CAPACITY * DICT_LOAD_FACTOR) \div 100,
    is_manual |-> alloc(DICT_INITIAL_CAPACITY * SizeofDictEntry).is_manual,
    pool_id   |-> alloc(DICT_INITIAL_CAPACITY * SizeofDictEntry).pool_id ]

\* the inner while loop of _dict_resize: place one carried entry
RECURSIVE ResizePlace(_, _, _, _)
ResizePlace(es, mask, idx, entry) ==
  IF es[idx].psl = 0 THEN [es EXCEPT ![idx] = entry]
  ELSE LET sw  == entry.psl > es[idx].psl
           es2 == IF sw THEN [es EXCEPT ![idx] = entry] ELSE es
           e2  == IF sw THEN es[idx] ELSE entry
       IN  ResizePlace(es2, mask, (idx + 1) % (mask + 1),
                       [e2 EXCEPT !.psl = @ + 1])

\* a resize loop that carries each entry with the psl it had
RECURSIVE ResizeLoop_KeepPsl(_, _, _, _, _)
ResizeLoop_KeepPsl(old, old_capacity, i, es, mask) ==
  IF i >= old_capacity THEN es
  ELSE IF old[i].psl > 0
    THEN ResizeLoop_KeepPsl(old, old_capacity, i + 1,
           ResizePlace(es, mask, HomeIdx(old[i].hash, mask), old[i]),
           mask)
  ELSE ResizeLoop_KeepPsl(old, old_capacity, i + 1, es, mask)

\* the for loop of _dict_resize over the old slots i..old_capacity-1
RECURSIVE ResizeLoop(_, _, _, _, _)
ResizeLoop(old, old_capacity, i, es, mask) ==
  IF i >= old_capacity THEN es
  ELSE IF old[i].psl > 0
    THEN ResizeLoop(old, old_capacity, i + 1,
           ResizePlace(es, mask, HomeIdx(old[i].hash, mask),
                       [old[i] EXCEPT !.psl = 1]),
           mask)
  ELSE ResizeLoop(old, old_capacity, i + 1, es, mask)

\* number of occupied slots of a buffer
Occupied(es) == Cardinality({i \in DOMAIN es : es[i].psl > 0})

\* a resize that keeps the threshold of the old capacity
dict_resize_KeepThreshold(dd, new_capacity) ==
  LET es == ResizeLoop(dd.entries, dd.capacity, 0,
                       ZeroedEntries(new_capacity), new_capacity - 1)
  IN [dd EXCEPT !.entries   = es,
                !.capacity  = new_capacity,
                !.mask      = new_capacity - 1,
                !.count     = Occupied(dd.entries)]

\* a resize that lets the table fill up before the next one
dict_resize_FillUp(dd, new_capacity) ==
  LET es == ResizeLoop(dd.entries, dd.capacity, 0,
                       ZeroedEntries(new_capacity), new_capacity - 1)
  IN [dd EXCEPT !.entries   = es,
                !.capacity  = new_capacity,
                !.mask      = new_capacity - 1,
                !.threshold = new_capacity,
                !.count     = Occupied(dd.entries)]

\* _dict_resize: the dict after the resize.  The provenance fields
\* is_manual and pool_id of the dict are read but not written.
dict_resize(dd, new_capacity) ==
  LET es == ResizeLoop(dd.entries, dd.capacity, 0,
                       ZeroedEntries(new_capacity), new_capacity - 1)
  IN [dd EXCEPT !.entries   = es,
                !.capacity  = new_capacity,
                !.mask      = new_capacity - 1,
                !.threshold = (new_capacity * DICT_LOAD_FACTOR) \div 100,
                !.count     = Occupied(dd.entries)]

\* a probe loop that carries a displaced entry on with the psl it had in
\* its slot
RECURSIVE SetProbe_StalePsl(_, _, _, _, _, _, _, _, _)
SetProbe_StalePsl(es, mask, idx, entry, key, h, value, fr, u) ==
  LET curr == es[idx] IN
  IF curr.psl = 0
    THEN [entries |-> [es EXCEPT ![idx] = entry], kind |-> "insert",
          old |-> NULL]
  ELSE IF curr.hash = h /\ ObjectsEqual(curr.key, key, fr, u)
    THEN IF curr.value # value
           THEN [entries |-> [es EXCEPT ![idx].value = value],
                 kind |-> "update", old |-> curr.value]
           ELSE [entries |-> es, kind |-> "same", old |-> NULL]
  ELSE LET sw  == entry.psl > curr.psl
           es2 == IF sw THEN [es EXCEPT ![idx] = entry] ELSE es
           e2  == IF sw THEN curr ELSE [entry EXCEPT !.psl = @ + 1]
       IN  SetProbe_StalePsl(es2, mask, (idx + 1) % (mask + 1), e2, key, h,
                             value, fr, u)

\* the probe loop of dict_set; key and h stay those of the call while the
\* carried entry changes with every Robin Hood swap
RECURSIVE SetProbe(_, _, _, _, _, _, _, _, _)
SetProbe(es, mask, idx, entry, key, h, value, fr, u) ==
  LET curr == es[idx] IN
  IF curr.psl = 0
    THEN [entries |-> [es EXCEPT ![idx] = entry], kind |-> "insert",
          old |-> NULL]
  ELSE IF curr.hash = h /\ ObjectsEqual(curr.key, key, fr, u)
    THEN IF curr.value # value
           THEN [entries |-> [es EXCEPT ![idx].value = value],
                 kind |-> "update", old |-> curr.value]
           ELSE [entries |-> es, kind |-> "same", old |-> NULL]
  ELSE LET sw  == entry.psl > curr.psl
           es2 == IF sw THEN [es EXCEPT ![idx] = entry] ELSE es
           e2  == IF sw THEN curr ELSE entry
       IN  SetProbe(es2, mask, (idx + 1) % (mask + 1),
                    [e2 EXCEPT !.psl = @ + 1], key, h, value, fr, u)

\* the probe loop of dict_get: the borrowed value, or NULL
RECURSIVE GetProbe(_, _, _, _, _, _, _, _)
GetProbe(es, mask, idx, psl, key, h, fr, u) ==
  LET curr == es[idx] IN
  IF curr.psl = 0 THEN NULL
  ELSE IF curr.hash = h /\ ObjectsEqual(curr.key, key, fr, u)
    THEN curr.value
  ELSE IF curr.psl < psl THEN NULL
  ELSE GetProbe(es, mask, (idx + 1) % (mask + 1), psl + 1, key, h, fr, u)

dict_get(dd, key, fr, u) ==
  GetProbe(dd.entries, dd.mask, HomeIdx(hash(key), dd.mask), 1, key,
           hash(key), fr, u)

\* a backward shift that moves the entries without decrementing their psl
RECURSIVE DelShift_KeepPsl(_, _, _, _)
DelShift_KeepPsl(es, mask, idx, n) ==
  LET next_idx == (idx + 1) % (mask + 1) IN
  IF es[next_idx].psl <= 1
    THEN [found |-> TRUE, shifted |-> n, at |-> idx,
          entries |-> [es EXCEPT ![idx].psl = 0, ![idx].key = NULL,
                                 ![idx].value = NULL],
          dk |-> es[idx].key, dv |-> es[idx].value]
  ELSE DelShift_KeepPsl([es EXCEPT ![idx] = es[next_idx]],
                        mask, next_idx, n + 1)

\* a delete that empties the matching slot and shifts nothing back
DelShift_NoShift(es, mask, idx, n) ==
  [found |-> TRUE, shifted |-> 0, at |-> idx,
   entries |-> [es EXCEPT ![idx].psl = 0, ![idx].key = NULL,
                          ![idx].value = NULL],
   dk |-> es[idx].key, dv |-> es[idx].value]

\* the backward shift of dict_del, from the slot idx of the match; dk and dv
\* are the pointers the loop passes to DECREF when it stops
RECURSIVE DelShift(_, _, _, _)
DelShift(es, mask, idx, n) ==
  LET next_idx == (idx + 1) % (mask + 1) IN
  IF es[next_idx].psl <= 1
    THEN [found |-> TRUE, shifted |-> n, at |-> idx,
          entries |-> [es EXCEPT ![idx].psl = 0, ![idx].key = NULL,
                                 ![idx].value = NULL],
          dk |-> es[idx].key, dv |-> es[idx].value]
  ELSE DelShift([es EXCEPT ![idx] = [es[next_idx] EXCEPT !.psl = @ - 1]],
                mask, next_idx, n + 1)

\* the probe loop of dict_del
RECURSIVE DelProbe(_, _, _, _, _, _, _, _)
DelProbe(es, mask, idx, psl, key, h, fr, u) ==
  LET curr == es[idx] IN
  IF curr.psl = 0 \/ psl > curr.psl
    THEN [found |-> FALSE, shifted |-> 0, at |-> 0, entries |-> es,
          dk |-> NULL, dv |-> NULL]
  ELSE IF curr.hash = h /\ ObjectsEqual(curr.key, key, fr, u)
    THEN DelShift(es, mask, idx, 0)
  ELSE DelProbe(es, mask, (idx + 1) % (mask + 1), psl + 1, key, h, fr, u)

(***************************************************************************)
(* The operations on the dict, and the references of the generated code.   *)
(***************************************************************************)
\* the smallest pointer of the table that is the same key as k
ClassOf(k) == CHOOSE j \in Keys : KeysEqual(j, k) /\ \A i \in Keys : KeysEqual(i, k) => j <= i

\* lastdel when the last call was not a dict_del that found its key
NoDel == [found |-> FALSE, at |-> 0, shifted |-> 0]

DictInit ==
  /\ rc = [o \in Objs |-> 1]
  /\ freed = {}
  /\ held = [o \in Objs |-> 1]
  /\ uaf = FALSE
  /\ d = alloc_dict
  /\ buf_src = alloc(DICT_INITIAL_CAPACITY * SizeofDictEntry).from
  /\ released = {}
  /\ amap = [k \in Keys |-> NULL]
  /\ nops = 0
  /\ lastdel = NoDel

\* the record of one release of an entries buffer through del()
EntriesRelease(dd, src) ==
  [what |-> "entries", from |-> src, to |-> del(dd.is_manual, dd.pool_id)]

\* the reference counts after dict_set, whose loop returned r
SetRefs(k, v, r) ==
  CASE r.kind = "insert" -> INCREF(INCREF(RefState, k), v)
    [] r.kind = "update" -> INCREF(DECREF(RefState, r.old), v)
    [] OTHER -> RefState

\* what dict_set leaves: the table d1 it probed, with the result r of its
\* loop, and the reference counts st
SetLeaves(grow, d1, r, st) ==
  /\ d' = [d1 EXCEPT !.entries = r.entries,
                     !.count = IF r.kind = "insert" THEN @ + 1 ELSE @]
  /\ buf_src' = IF grow THEN alloc(d.capacity * 2 * SizeofDictEntry).from
                ELSE buf_src
  /\ released' = IF grow THEN released \cup {EntriesRelease(d, buf_src)}
                 ELSE released
  /\ rc' = st.rc
  /\ freed' = st.freed
  /\ uaf' = st.uaf

\* dict_set from its loop on: r is what the loop returns
SetLooped(k, v, grow, d1, r) == SetLeaves(grow, d1, r, SetRefs(k, v, r))

\* dict_set after its resize check: d1 is the table the loop probes
SetResized(k, v, u, grow, d1, h) ==
  SetLooped(k, v, grow, d1,
            SetProbe(d1.entries, d1.mask, HomeIdx(h, d1.mask),
                     [key |-> k, value |-> v, hash |-> h, psl |-> 1],
                     k, h, v, freed, u))

\* dict_set(d, k, v) on the dict and the refcounts
SetStep(k, v, u) ==
  /\ d.live
  /\ nops < MaxOps
  /\ nops' = nops + 1
  /\ held[k] > 0 /\ k \notin freed
  /\ held[v] > 0 /\ v \notin freed
  /\ SetResized(k, v, u, d.count >= d.threshold,
                IF d.count >= d.threshold THEN dict_resize(d, d.capacity * 2)
                ELSE d,
                hash(k))
  /\ lastdel' = NoDel
  /\ UNCHANGED held
  /\ UNCHANGED <<hvars, xvars>>

\* dict_set(d, k, v), and the map the calls describe
DictSet(k, v, u) ==
  /\ SetStep(k, v, u)
  /\ amap' = [amap EXCEPT ![ClassOf(k)] = v]

\* what dict_del leaves: the result r of its loops and the reference counts
DelLeaves(r, st) ==
  /\ d' = [d EXCEPT !.entries = r.entries,
                    !.count = IF r.found THEN @ - 1 ELSE @]
  /\ rc' = st.rc
  /\ freed' = st.freed
  /\ uaf' = st.uaf
  /\ lastdel' = [found |-> r.found, at |-> r.at, shifted |-> r.shifted]

\* dict_del from its loops on: r is what they return
DelLooped(r) ==
  DelLeaves(r, IF r.found THEN DECREF(DECREF(RefState, r.dk), r.dv)
               ELSE RefState)

\* dict_del(d, k) on the dict and the refcounts
DelStep(k, u) ==
  /\ d.live
  /\ nops < MaxOps
  /\ nops' = nops + 1
  /\ held[k] > 0 /\ k \notin freed
  /\ DelLooped(DelProbe(d.entries, d.mask, HomeIdx(hash(k), d.mask), 1, k,
                        hash(k), freed, u))
  /\ UNCHANGED <<held, buf_src, released>>
  /\ UNCHANGED <<hvars, xvars>>

\* dict_del(d, k), and the map the calls describe
DictDel(k, u) ==
  /\ DelStep(k, u)
  /\ amap' = [amap EXCEPT ![ClassOf(k)] = NULL]

\* the for loop of dict_destroy over the slots i..capacity-1
RECURSIVE DestroyLoop(_, _, _, _)
DestroyLoop(es, capacity, i, st) ==
  IF i >= capacity THEN st
  ELSE IF es[i].psl > 0
    THEN DestroyLoop(es, capacity, i + 1,
                     DECREF(DECREF(st, es[i].key), es[i].value))
  ELSE DestroyLoop(es, capacity, i + 1, st)

\* DECREF of the dict by its only owner: dict_destroy
DictDestroy ==
  /\ d.live
  /\ LET st == DestroyLoop(d.entries, d.capacity, 0, RefState)
     IN /\ rc' = st.rc
        /\ freed' = st.freed
        /\ uaf' = st.uaf
  /\ released' = released \cup {EntriesRelease(d, buf_src)}
  /\ d' = [d EXCEPT !.live = FALSE]
  /\ UNCHANGED <<held, buf_src, amap, nops, lastdel>>
  /\ UNCHANGED <<hvars, xvars>>

\* the generated code drops one of its own references: DECREF(o)
Release(o) ==
  /\ held[o] > 0
  /\ held' = [held EXCEPT ![o] = @ - 1]
  /\ LET st == DECREF(RefState, o)
     IN /\ rc' = st.rc
        /\ freed' = st.freed
        /\ uaf' = st.uaf
  /\ UNCHANGED <<d, buf_src, released, amap, nops, lastdel>>
  /\ UNCHANGED <<hvars, xvars>>

\* Keys whose home index is the last but one slot of a table of 4 and of 8
\* slots (hash -2: the ints -1 and -2 and the float -1), and a string whose
\* home index is slot 0
RingKeys == {KeyBase + 4, KeyBase + 5, KeyBase + 9, KeyBase + 10}
RingObjs == RingKeys \cup Vals

\* an empty dict and the objects of RingObjs, one reference held to each
RingStart ==
  /\ rc = [o \in RingObjs |-> 1]
  /\ freed = {}
  /\ held = [o \in RingObjs |-> 1]
  /\ uaf = FALSE
  /\ d = alloc_dict
  /\ buf_src = alloc(DICT_INITIAL_CAPACITY * SizeofDictEntry).from
  /\ released = {}
  /\ amap = [k \in Keys |-> NULL]
  /\ nops = 0
  /\ lastdel = NoDel

RingSet(k, v) == SetStep(k, v, FALSE) /\ UNCHANGED amap

RingDel(k) == DelStep(k, FALSE) /\ UNCHANGED amap

RingNext ==
  \/ \E k \in RingKeys, v \in Vals : RingSet(k, v)
  \/ \E k \in RingKeys : RingDel(k)

DictNext ==
  \/ \E k \in Keys, v \in Vals, u \in BOOLEAN : DictSet(k, v, u)
  \/ \E k \in Keys, u \in BOOLEAN : DictDel(k, u)
  \/ \E o \in Keys : Release(o)
  \/ DictDestroy

(***************************************************************************)
(* The values of the runtime: the constructors, INCREF and DECREF with     *)
(* the teardown of each variant, and the growth of a list's items buffer.  *)
(* A value is a record at an address; addresses are handed out in order    *)
(* and not reused.  The items of a tuple or list are kept as a bag (how    *)
(* many slots hold each address): their order plays no part in reference   *)
(* counts or in the routing of blocks.                                     *)
(***************************************************************************)
\* values constructed in one run
MaxObjs == 2
\* references the generated code holds on one value
MaxHeld == 2
\* append and extend calls in one run
MaxListOps == 3

\* sizeof(UnicodeObject): the StringObject header (40 bytes) and data[1]
SizeofUnicodeObject == 48
\* what list_init takes for an initial capacity of 0
LIST_DEFAULT_CAPACITY == 4
LIST_GROWTH == 2
\* the members add_list_functions stores in the __dict__ of a list
LIST_METHODS == 6

\* values constructed in one run of the tuple operations
MaxTupleObjs == 4

MaxAddrs == IF MaxObjs > MaxTupleObjs THEN MaxObjs ELSE MaxTupleObjs

Addrs == 1..MaxAddrs

\* the largest payload a size class holds, and the largest list capacity
\* whose items buffer still comes from a size class
MaxPayload == block_sizes[Len(block_sizes)]
BigList == MaxPayload \div SizeofPtr

\* the arguments the constructors are called with
StrLens == {1, MaxPayload}
TupleSizes == {1, 2}
ListCaps == {0, 1, BigList + 1}
ListSizes == {1, 2, BigList}

NoKids == [a \in Addrs |-> 0]

\* the record of an address no constructor has returned yet
NoObj ==
  [ made |-> FALSE, tag |-> OBJ_TYPE_BASE, rc |-> 0, torn |-> 0,
    is_manual |-> 0, pool_id |-> 0,  \* __allocation__ of the header
    written |-> {},          \* the header fields a store has initialised
    from |-> NoAlloc,        \* the allocator the block came from
    kids |-> NoKids, size |-> 0, capacity |-> 0,
    dict |-> NULL,           \* __dict__ of an instance
    methods |-> 0,           \* entries of the __dict__ of a list
    buf_from |-> NoAlloc,    \* the allocator of items, entries or name
    buf_manual |-> 0, buf_pool |-> 0 ]  \* Dict.__allocation__

\* a block from a dedicated pool or malloc, with refcount 1, type tag and
\* is_manual stored; pool_id is left as the block had it
Header(tag, is_manual, from) ==
  [NoObj EXCEPT !.made = TRUE, !.tag = tag, !.rc = 1,
                !.is_manual = is_manual, !.written = {"is_manual"},
                !.from = from]

alloc_object == Header(OBJ_TYPE_BASE, 0, VariantPool(OBJ_TYPE_BASE))

alloc_instance(dict) ==
  [Header(OBJ_TYPE_INSTANCE, 0, VariantPool(OBJ_TYPE_INSTANCE))
     EXCEPT !.dict = dict]

alloc_bool == Header(OBJ_TYPE_INT, 0, VariantPool(OBJ_TYPE_INT))

alloc_int == Header(OBJ_TYPE_INT, 0, VariantPool(OBJ_TYPE_INT))

alloc_float == Header(OBJ_TYPE_FLOAT, 0, VariantPool(OBJ_TYPE_FLOAT))

\* alloc_str for a string of len one-byte code points
alloc_str(len) ==
  LET a == alloc(SizeofUnicodeObject + len)
  IN  [Header(OBJ_TYPE_STRING, a.is_manual, a.from)
         EXCEPT !.pool_id = a.pool_id, !.written = {"is_manual", "pool_id"},
                !.size = len]

alloc_bytes == Header(OBJ_TYPE_BYTES, 1, SysAlloc)

\* the name is a strdup copy
alloc_function ==
  [Header(OBJ_TYPE_FUNCTION, 0, VariantPool(OBJ_TYPE_FUNCTION))
     EXCEPT !.buf_from = SysAlloc]

\* alloc_tuple of size slots that all hold x
alloc_tuple(size, x) ==
  [Header(OBJ_TYPE_TUPLE, 1, SysAlloc)
     EXCEPT !.size = size, !.kids = [NoKids EXCEPT ![x] = size]]

\* alloc_tuple on an objects array that holds address a in items[a] slots
alloc_tuple_items(size, items) ==
  [Header(OBJ_TYPE_TUPLE, 1, SysAlloc) EXCEPT !.size = size, !.kids = items]

\* the value alloc_dict returns: the header's __allocation__ is not
\* written, the provenance of the entries goes to Dict.__allocation__
DictValue ==
  [NoObj EXCEPT !.made = TRUE, !.tag = OBJ_TYPE_DICT, !.rc = 1,
                !.from = VariantPool(OBJ_TYPE_DICT),
                !.capacity = alloc_dict.capacity,
                !.buf_from = alloc(DICT_INITIAL_CAPACITY * SizeofDictEntry).from,
                !.buf_manual = alloc_dict.is_manual,
                !.buf_pool = alloc_dict.pool_id]

\* list_init: the is_manual and pool_id alloc() reports are dropped
list_init(list, initial_capacity) ==
  LET capacity == IF initial_capacity > 0 THEN initial_capacity
                  ELSE LIST_DEFAULT_CAPACITY
  IN  [list EXCEPT !.size = 0, !.capacity = capacity,
                   !.buf_from = alloc(SizeofPtr * capacity).from]

add_list_functions(list) == [list EXCEPT !.methods = LIST_METHODS]

alloc_list ==
  add_list_functions(
    list_init(Header(OBJ_TYPE_LIST, 0, VariantPool(OBJ_TYPE_LIST)), 1))

alloc_list_empty(capacity) ==
  add_list_functions(
    list_init(Header(OBJ_TYPE_LIST, 0, VariantPool(OBJ_TYPE_LIST)), capacity))

\* alloc_list_prefill with an items array of size slots that all hold x
alloc_list_prefill(size, x) ==
  add_list_functions(
    [list_init(Header(OBJ_TYPE_LIST, 0, VariantPool(OBJ_TYPE_LIST)), size)
       EXCEPT !.size = size, !.kids = [NoKids EXCEPT ![x] = size]])

\* The reference-count engine works on H = [heap, log, uaf].
HeapState == [heap |-> heap, log |-> hlog, uaf |-> huaf]

\* n calls of INCREF(o)
HeapINCREF(H, o, n) ==
  IF o = NULL \/ n = 0 THEN H
  ELSE IF H.heap[o].torn > 0 THEN [H EXCEPT !.uaf = TRUE]
  ELSE [H EXCEPT !.heap[o].rc = @ + n]

\* the allocator the switch of DECREF sends the block of ob to
RouteBlock(ob) ==
  CASE ob.tag = OBJ_TYPE_DICT -> VariantPool(OBJ_TYPE_DICT)
    [] ob.tag \in {OBJ_TYPE_TUPLE, OBJ_TYPE_STRING, OBJ_TYPE_BYTES} ->
         del(ob.is_manual, ob.pool_id)
    [] OTHER -> IF ob.is_manual = 1 THEN del(ob.is_manual, ob.pool_id)
                ELSE VariantPool(ob.tag)

\* the buffers the switch of DECREF releases besides the block
RouteBuffers(ob) ==
  CASE ob.tag = OBJ_TYPE_LIST ->
         {[what |-> "items", tag |-> ob.tag, from |-> ob.buf_from,
           to |-> SysAlloc]}
    [] ob.tag = OBJ_TYPE_FUNCTION ->
         {[what |-> "name", tag |-> ob.tag, from |-> ob.buf_from,
           to |-> SysAlloc]}
    [] ob.tag = OBJ_TYPE_DICT ->
         {[what |-> "entries", tag |-> ob.tag, from |-> ob.buf_from,
           to |-> del(ob.buf_manual, ob.buf_pool)]}
    [] OTHER -> {}

RECURSIVE HeapDECREF(_, _, _)
RECURSIVE Teardown(_, _)
RECURSIVE KidsLoop(_, _, _)

\* the loops of DECREF over the items of a tuple or list
KidsLoop(H, kids, i) ==
  IF i > MaxAddrs THEN H
  ELSE KidsLoop(HeapDECREF(H, i, kids[i]), kids, i + 1)

\* the switch of DECREF on the value at o, whose refcount has reached 0
Teardown(H, o) ==
  LET ob == H.heap[o]
      H1 == CASE ob.tag = OBJ_TYPE_INSTANCE -> HeapDECREF(H, ob.dict, 1)
              [] ob.tag \in {OBJ_TYPE_TUPLE, OBJ_TYPE_LIST, OBJ_TYPE_DICT} ->
                   KidsLoop(H, ob.kids, 1)
              [] OTHER -> H
  IN  [H1 EXCEPT !.heap[o].torn = @ + 1,
                 !.log = @ \cup RouteBuffers(ob) \cup
                         {[what |-> "block", tag |-> ob.tag,
                           from |-> ob.from, to |-> RouteBlock(ob)]}]

\* a DECREF that runs the teardown when the count is at most 1 after the
\* decrement
HeapDECREF_LeqOne(H, o, n) ==
  IF o = NULL \/ n = 0 THEN H
  ELSE IF H.heap[o].torn > 0 THEN [H EXCEPT !.uaf = TRUE]
  ELSE IF H.heap[o].rc - n > 1
    THEN [H EXCEPT !.heap[o].rc = @ - n]
  ELSE Teardown([H EXCEPT !.heap[o].rc = @ - n], o)

\* n calls of DECREF(o) in a row; the call that takes the count to 0 runs
\* the teardown, a call on a released block writes to freed memory
HeapDECREF(H, o, n) ==
  IF o = NULL \/ n = 0 THEN H
  ELSE IF H.heap[o].torn > 0 THEN [H EXCEPT !.uaf = TRUE]
  ELSE IF H.heap[o].rc <= 0 \/ H.heap[o].rc > n
    THEN [H EXCEPT !.heap[o].rc = @ - n]
  ELSE LET rest == n - H.heap[o].rc
           H1   == Teardown([H EXCEPT !.heap[o].rc = 0], o)
       IN  IF rest > 0 THEN [H1 EXCEPT !.uaf = TRUE] ELSE H1

\* the growth step of list_append and list_add: pid is what the header's
\* pool_id reads as
ListGrow(list, new_capacity, pid) ==
  LET a == alloc(SizeofPtr * new_capacity)
  IN  [list |-> [list EXCEPT !.is_manual = a.is_manual,
                             !.pool_id = a.pool_id,
                             !.written = {"is_manual", "pool_id"},
                             !.capacity = new_capacity,
                             !.buf_from = a.from],
       rel  |-> {[what |-> "items", tag |-> list.tag,
                  from |-> list.buf_from,
                  to |-> del(list.is_manual, pid)]}]

list_append(list, item, pid) ==
  LET g == IF list.size >= list.capacity
             THEN ListGrow(list, list.capacity * LIST_GROWTH, pid)
             ELSE [list |-> list, rel |-> {}]
  IN  [g EXCEPT !.list.kids[item] = @ + 1, !.list.size = @ + 1]

\* the while loop of list_add
RECURSIVE NewCapacity(_, _)
NewCapacity(new_capacity, total_needed) ==
  IF new_capacity < total_needed
    THEN NewCapacity(new_capacity * 2, total_needed)
    ELSE new_capacity

list_add(list, other, pid) ==
  LET total_needed == list.size + other.size
      g == IF total_needed > list.capacity
             THEN ListGrow(list, NewCapacity(list.capacity, total_needed), pid)
             ELSE [list |-> list, rel |-> {}]
  IN  [g EXCEPT !.list.kids = [a \in Addrs |-> @[a] + other.kids[a]],
                !.list.size = @ + other.size]

\* what a read of the header's pool_id can give: the stored value, or for
\* a field no store has initialised whatever the block held before (here
\* the smallest and the largest of the 64 values of the 6-bit field)
PoolIdRead(ob) ==
  IF "pool_id" \in ob.written THEN {ob.pool_id}
  ELSE {0, Len(block_sizes) - 1}

HeapInit ==
  /\ heap = [a \in Addrs |-> NoObj]
  /\ hheld = [a \in Addrs |-> 0]
  /\ hlog = {}
  /\ huaf = FALSE
  /\ hnops = 0

Unmade == {a \in Addrs : a <= hmax /\ ~heap[a].made}
Fresh == CHOOSE a \in Unmade : \A b \in Unmade : a <= b

\* a value the generated code holds and can pass to the runtime
Held(o) == heap[o].made /\ hheld[o] > 0 /\ heap[o].torn = 0

\* a constructor returns ob to the generated code; ob holds n references
\* to x
Construct(ob, x, n) ==
  /\ ~huaf
  /\ Unmade # {}
  /\ x # NULL => Held(x)
  /\ heap' = [HeapINCREF(HeapState, x, n).heap EXCEPT ![Fresh] = ob]
  /\ hheld' = [hheld EXCEPT ![Fresh] = 1]
  /\ UNCHANGED <<hlog, huaf, hnops>>
  /\ UNCHANGED <<dvars, xvars>>

NewObject == Construct(alloc_object, NULL, 0)
NewBool == Construct(alloc_bool, NULL, 0)
NewInt == Construct(alloc_int, NULL, 0)
NewFloat == Construct(alloc_float, NULL, 0)
NewStr == \E len \in StrLens : Construct(alloc_str(len), NULL, 0)
NewBytes == Construct(alloc_bytes, NULL, 0)
NewFunction == Construct(alloc_function, NULL, 0)
NewDict == Construct(DictValue, NULL, 0)
NewTuple ==
  \E size \in TupleSizes, x \in Addrs : Construct(alloc_tuple(size, x), x, size)
NewList == Construct(alloc_list, NULL, 0)
NewListEmpty ==
  \E capacity \in ListCaps : Construct(alloc_list_empty(capacity), NULL, 0)
NewListPrefill ==
  \E size \in ListSizes, x \in Addrs :
    Construct(alloc_list_prefill(size, x), x, size)

\* alloc_instance: the instance and the dict it owns
NewInstance ==
  /\ ~huaf
  /\ Cardinality(Unmade) >= 2
  /\ LET dict == CHOOSE a \in Unmade \ {Fresh} :
                   \A b \in Unmade \ {Fresh} : a <= b
     IN /\ heap' = [heap EXCEPT ![Fresh] = alloc_instance(dict),
                                ![dict] = DictValue]
        /\ hheld' = [hheld EXCEPT ![Fresh] = 1]
  /\ UNCHANGED <<hlog, huaf, hnops>>
  /\ UNCHANGED <<dvars, xvars>>

\* the generated code takes one more reference: INCREF(o)
Incref(o) ==
  /\ ~huaf
  /\ heap[o].made
  /\ hheld[o] > 0 /\ hheld[o] < MaxHeld
  /\ hheld' = [hheld EXCEPT ![o] = @ + 1]
  /\ LET H == HeapINCREF(HeapState, o, 1)
     IN heap' = H.heap /\ hlog' = H.log /\ huaf' = H.uaf
  /\ UNCHANGED hnops
  /\ UNCHANGED <<dvars, xvars>>

\* the generated code drops one of its references: DECREF(o)
Decref(o) ==
  /\ ~huaf
  /\ heap[o].made
  /\ hheld[o] > 0
  /\ hheld' = [hheld EXCEPT ![o] = @ - 1]
  /\ LET H == HeapDECREF(HeapState, o, 1)
     IN heap' = H.heap /\ hlog' = H.log /\ huaf' = H.uaf
  /\ UNCHANGED hnops
  /\ UNCHANGED <<dvars, xvars>>

\* NgAppend with args (list, item)
NgAppend(l, item) ==
  /\ ~huaf
  /\ hnops < MaxListOps
  /\ Held(l) /\ heap[l].tag = OBJ_TYPE_LIST
  /\ Held(item)
  /\ \E pid \in PoolIdRead(heap[l]) :
       LET H == HeapINCREF(HeapState, item, 1)
           r == list_append(H.heap[l], item, pid)
       IN /\ heap' = [H.heap EXCEPT ![l] = r.list]
          /\ hlog' = hlog \cup r.rel
  /\ hnops' = hnops + 1
  /\ UNCHANGED <<hheld, huaf>>
  /\ UNCHANGED <<dvars, xvars>>

\* NgExtend with args (list, other)
NgExtend(l, other) ==
  /\ ~huaf
  /\ hnops < MaxListOps
  /\ Held(l) /\ heap[l].tag = OBJ_TYPE_LIST
  /\ Held(other) /\ heap[other].tag = OBJ_TYPE_LIST
  /\ \E pid \in PoolIdRead(heap[l]) :
       LET r == list_add(heap[l], heap[other], pid)
       IN /\ heap' = [heap EXCEPT ![l] = r.list]
          /\ hlog' = hlog \cup r.rel
  /\ hnops' = hnops + 1
  /\ UNCHANGED <<hheld, huaf>>
  /\ UNCHANGED <<dvars, xvars>>

(***************************************************************************)
(* The operations on tuples: NgCatTuple, NgPrependTuple and the tuple case *)
(* of NgSetItem.  exit(1) ends the run: exited takes the message.          *)
(***************************************************************************)
NoExit == ""

\* Object* items[6144] of NgCatTuple and NgPrependTuple
MAX_TUPLE_ITEMS == 6144

\* an alloc_tuple that stores the items without INCREF
ItemsIncref_None(H, items, i) == H

\* the loop of alloc_tuple: INCREF(objects[i]) for every slot
RECURSIVE ItemsIncref(_, _, _)
ItemsIncref(H, items, i) ==
  IF i > MaxAddrs THEN H
  ELSE ItemsIncref(HeapINCREF(H, i, items[i]), items, i + 1)

\* a tuple operation returns alloc_tuple(new_size, items)
ReturnTuple(new_size, items) ==
  LET H == ItemsIncref(HeapState, items, 1)
  IN  /\ Unmade # {}
      /\ heap' = [H.heap EXCEPT ![Fresh] = alloc_tuple_items(new_size, items)]
      /\ huaf' = H.uaf
      /\ hheld' = [hheld EXCEPT ![Fresh] = 1]
      /\ UNCHANGED <<hlog, hnops>>
      /\ UNCHANGED <<dvars, kq, hmax, exited, pool, oom, aq,
               symbol_table,
               symreg, ls, fq>>

Exit(msg) ==
  /\ exited' = msg
  /\ UNCHANGED <<dvars, hvars, kq, hmax, pool, oom, aq,
               symbol_table,
               symreg, ls, fq>>

NgCatTuple(a, b) ==
  /\ ~huaf /\ exited = NoExit
  /\ Held(a) /\ Held(b)
  /\ IF heap[a].tag # OBJ_TYPE_TUPLE \/ heap[b].tag # OBJ_TYPE_TUPLE
       THEN Exit("TypeError: NgCatTuple expects two tuple objects")
     ELSE LET new_size == heap[a].size + heap[b].size
              items == [x \in Addrs |-> heap[a].kids[x] + heap[b].kids[x]]
          IN  IF new_size > MAX_TUPLE_ITEMS
                THEN Exit("Error: concatenated tuple too large")
              ELSE ReturnTuple(new_size, items)

NgPrependTuple(item, tuple) ==
  /\ ~huaf /\ exited = NoExit
  /\ Held(item) /\ Held(tuple)
  /\ IF heap[tuple].tag # OBJ_TYPE_TUPLE
       THEN Exit("TypeError: NgPrependTuple expects a tuple object")
     ELSE LET new_size == heap[tuple].size + 1
              items == [heap[tuple].kids EXCEPT ![item] = @ + 1]
          IN  IF new_size > MAX_TUPLE_ITEMS
                THEN Exit("Error: prepended tuple too large")
              ELSE ReturnTuple(new_size, items)

\* NgSetItem(container, index, value) on a tuple
NgSetItemTuple(container, value) ==
  /\ ~huaf /\ exited = NoExit
  /\ Held(container) /\ heap[container].tag = OBJ_TYPE_TUPLE
  /\ Held(value)
  /\ Exit("TypeError: 'tuple' object does not support item assignment")

\* the constructors, INCREF and DECREF while the process runs
Running(A) == exited = NoExit /\ A

TupleNext ==
  \/ Running(NewInt)
  \/ Running(NewTuple)
  \/ \E o \in Addrs : Running(Incref(o))
  \/ \E o \in Addrs : Running(Decref(o))
  \/ \E a \in Addrs, b \in Addrs : NgCatTuple(a, b)
  \/ \E item \in Addrs, tuple \in Addrs : NgPrependTuple(item, tuple)
  \/ \E container \in Addrs, value \in Addrs : NgSetItemTuple(container, value)

(***************************************************************************)
(* Requests the system allocator refuses: malloc returns NULL in           *)
(* _expand_pool, in alloc() for a size above the largest size class, or    *)
(* in alloc_tuple.                                                          *)
(***************************************************************************)
NoRefusal == [refused |-> FALSE, op |-> "", returned |-> FALSE, value |-> ""]

\* the process ended by a signal, with nothing written by the program
KilledBySignal == "killed by signal"

\* NgAppend when alloc() returns NULL for the grown items buffer:
\* list_append returns -1 with the list as it was, after the INCREF of the
\* item, and NgAppend returns
NgAppendRefused(l, item) ==
  /\ ~huaf /\ exited = NoExit
  /\ hnops < MaxListOps
  /\ Held(l) /\ heap[l].tag = OBJ_TYPE_LIST
  /\ Held(item)
  /\ heap[l].size >= heap[l].capacity
  /\ heap' = HeapINCREF(HeapState, item, 1).heap
  /\ hnops' = hnops + 1
  /\ oom' = [refused |-> TRUE, op |-> "list_append", returned |-> TRUE,
             value |-> "item dropped"]
  /\ UNCHANGED <<hheld, hlog, huaf>>
  /\ UNCHANGED <<dvars, kq, hmax, exited, pool, aq,
               symbol_table,
               symreg, ls, fq>>

\* alloc_dict when dynamic_pool_alloc returns NULL for the Dict block
AllocDictRefused ==
  /\ ~huaf /\ exited = NoExit
  /\ Unmade # {}
  /\ oom' = [refused |-> TRUE, op |-> "alloc_dict", returned |-> TRUE,
             value |-> "NULL"]
  /\ UNCHANGED <<dvars, hvars, kq, hmax, exited, pool, aq,
               symbol_table,
               symreg, ls, fq>>

\* alloc_tuple when malloc returns NULL: the stores of the header fields go
\* through the null pointer, which the program does not define
AllocTupleRefused ==
  /\ ~huaf /\ exited = NoExit
  /\ Unmade # {}
  /\ \/ /\ exited' = KilledBySignal
        /\ oom' = [refused |-> TRUE, op |-> "alloc_tuple",
                   returned |-> FALSE, value |-> ""]
     \/ /\ exited' = exited
        /\ oom' = [refused |-> TRUE, op |-> "alloc_tuple",
                   returned |-> TRUE, value |-> "NULL"]
  /\ UNCHANGED <<dvars, hvars, kq, hmax, pool, aq,
               symbol_table,
               symreg, ls, fq>>

OomNext ==
  \/ Running(NewInt)
  \/ Running(NewListEmpty)
  \/ Running(NewDict)
  \/ \E l \in Addrs, item \in Addrs : Running(NgAppend(l, item))
  \/ \E l \in Addrs, item \in Addrs : NgAppendRefused(l, item)
  \/ AllocDictRefused
  \/ AllocTupleRefused

HeapNext ==
  \/ NewObject
  \/ NewBool
  \/ NewInt
  \/ NewFloat
  \/ NewStr
  \/ NewBytes
  \/ NewFunction
  \/ NewDict
  \/ NewTuple
  \/ NewList
  \/ NewListEmpty
  \/ NewListPrefill
  \/ NewInstance
  \/ \E o \in Addrs : Incref(o)
  \/ \E o \in Addrs : Decref(o)
  \/ \E l \in Addrs, item \in Addrs : NgAppend(l, item)
  \/ \E l \in Addrs, other \in Addrs : NgExtend(l, other)

(***************************************************************************)
(* Key identity: a fresh dict receives k1 with dict_set and is asked for   *)
(* k2 with dict_get, for every pair of the key objects.                    *)
(***************************************************************************)
KeyIdle == [k1 |-> NULL, k2 |-> NULL, done |-> TRUE, eq |-> FALSE,
            hit |-> FALSE, h1 |-> 0, h2 |-> 0]

KeyPairs ==
  \E k1 \in KeyObjs, k2 \in KeyObjs :
    kq = [k1 |-> k1, k2 |-> k2, done |-> FALSE, eq |-> FALSE, hit |-> FALSE,
          h1 |-> 0, h2 |-> 0]

\* dict_set(d, k1, v) on alloc_dict(), then dict_get(d, k2)
KeyLookup(k1, k2) ==
  LET d0 == alloc_dict
      h  == hash(k1)
      v  == Len(ObjTable) + 1
      r  == SetProbe(d0.entries, d0.mask, HomeIdx(h, d0.mask),
                     [key |-> k1, value |-> v, hash |-> h, psl |-> 1],
                     k1, h, v, {}, FALSE)
      d1 == [d0 EXCEPT !.entries = r.entries, !.count = 1]
  IN  dict_get(d1, k2, {}, FALSE) # NULL

Compare ==
  /\ ~kq.done
  /\ kq' = [kq EXCEPT !.done = TRUE,
                      !.eq = ObjectsEqual(kq.k1, kq.k2, {}, FALSE),
                      !.hit = KeyLookup(kq.k1, kq.k2),
                      !.h1 = hash(kq.k1),
                      !.h2 = hash(kq.k2)]
  /\ UNCHANGED <<dvars, hvars, hmax, exited, pool, oom, aq,
               symbol_table,
               symreg, ls, fq>>

KeyNext == Compare

(***************************************************************************)
(* The dynamic pool of pool.h.  A page is a record at an address 1 ..      *)
(* MaxPages; malloc hands out the lowest address not in use, so the        *)
(* address of a freed page comes back.  The blocks of a page are numbered  *)
(* 1 .. blocks_per_page and its free list is the sequence of free block    *)
(* numbers from free_head on.                                              *)
(***************************************************************************)
\* pages of one pool that exist at a time
MaxPages == 3
\* the largest blocks_per_page a pool is created with
MaxBlocksPerPage == 3

PageAddrs == 1..MaxPages

\* memory that is not a page: what free(page) leaves behind
NoPage == [live |-> FALSE, next |-> NULL, prev |-> NULL, used_count |-> 0,
           free |-> <<>>]

dynamic_pool_create(blocks_per_page) ==
  [ blocks_per_page |-> blocks_per_page,
    partial_pages   |-> NULL,
    full_pages      |-> NULL,
    pages           |-> [a \in PageAddrs |-> NoPage],
    out             |-> {},    \* blocks handed out: <<page, block number>>
    last            |-> "create" ]  \* the last call: create, alloc, free,
                                    \* or shrink for a free that freed a page

\* *list_head for the list named which
ListHead(P, which) ==
  IF which = "partial" THEN P.partial_pages ELSE P.full_pages

SetListHead(P, which, page) ==
  IF which = "partial" THEN [P EXCEPT !.partial_pages = page]
  ELSE [P EXCEPT !.full_pages = page]

\* an unlink that never moves the list head
unlink_page_KeepHead(P, which, page) ==
  LET pg == P.pages[page]
      P1 == IF pg.prev # NULL THEN [P EXCEPT !.pages[pg.prev].next = pg.next]
            ELSE P
      P2 == IF pg.next # NULL THEN [P1 EXCEPT !.pages[pg.next].prev = pg.prev]
            ELSE P1
  IN  [P2 EXCEPT !.pages[page].next = NULL, !.pages[page].prev = NULL]

_unlink_page(P, which, page) ==
  LET pg == P.pages[page]
      P1 == IF pg.prev # NULL THEN [P EXCEPT !.pages[pg.prev].next = pg.next]
            ELSE P
      P2 == IF pg.next # NULL THEN [P1 EXCEPT !.pages[pg.next].prev = pg.prev]
            ELSE P1
      P3 == IF ListHead(P2, which) = page
              THEN SetListHead(P2, which, pg.next)
            ELSE P2
  IN  [P3 EXCEPT !.pages[page].next = NULL, !.pages[page].prev = NULL]

_push_page(P, which, page) ==
  LET head == ListHead(P, which)
      P1 == [P EXCEPT !.pages[page].next = head, !.pages[page].prev = NULL]
      P2 == IF head # NULL THEN [P1 EXCEPT !.pages[head].prev = page] ELSE P1
  IN  SetListHead(P2, which, page)

FreePageAddrs(P) == {a \in PageAddrs : ~P.pages[a].live}

\* _expand_pool when malloc returns the page at buffer
_expand_pool(P, buffer) ==
  _push_page(
    [P EXCEPT !.pages[buffer] =
       [live |-> TRUE, next |-> NULL, prev |-> NULL, used_count |-> 0,
        free |-> [i \in 1..P.blocks_per_page |-> i]]],
    "partial", buffer)

\* a free that leaves an empty page on the partial list
dynamic_pool_free_NoShrink(P, ptr) ==
  LET page == ptr[1]
      P1 == IF P.pages[page].free = <<>>
              THEN _push_page(_unlink_page(P, "full", page), "partial", page)
            ELSE P
  IN  [P1 EXCEPT !.pages[page].free = <<ptr[2]>> \o @,
                 !.pages[page].used_count = @ - 1,
                 !.out = @ \ {ptr}]

\* an alloc that returns the head of the free list and leaves it there
dynamic_pool_alloc_KeepHead(P) ==
  LET P1 == IF P.partial_pages = NULL
              THEN _expand_pool(P, CHOOSE a \in FreePageAddrs(P) :
                                     \A b \in FreePageAddrs(P) : a <= b)
            ELSE P
      page == P1.partial_pages
      raw_block == Head(P1.pages[page].free)
      P2 == [P1 EXCEPT !.pages[page].used_count = @ + 1]
  IN  [pool |-> [P2 EXCEPT !.out = @ \cup {<<page, raw_block>>}],
       ptr  |-> <<page, raw_block>>]

\* dynamic_pool_alloc: the pool after the call and the block returned
dynamic_pool_alloc(P) ==
  LET P1 == IF P.partial_pages = NULL
              THEN _expand_pool(P, CHOOSE a \in FreePageAddrs(P) :
                                     \A b \in FreePageAddrs(P) : a <= b)
            ELSE P
      page == P1.partial_pages
      raw_block == Head(P1.pages[page].free)
      P2 == [P1 EXCEPT !.pages[page].free = Tail(@),
                       !.pages[page].used_count = @ + 1]
      P3 == IF P2.pages[page].free = <<>>
              THEN _push_page(_unlink_page(P2, "partial", page), "full", page)
            ELSE P2
  IN  [pool |-> [P3 EXCEPT !.out = @ \cup {<<page, raw_block>>}],
       ptr  |-> <<page, raw_block>>]

\* dynamic_pool_free of the block ptr = <<page, block number>>, where the
\* page is what the block's hidden header names
dynamic_pool_free(P, ptr) ==
  LET page == ptr[1]
      P1 == IF P.pages[page].free = <<>>
              THEN _push_page(_unlink_page(P, "full", page), "partial", page)
            ELSE P
      P2 == [P1 EXCEPT !.pages[page].free = <<ptr[2]>> \o @,
                       !.pages[page].used_count = @ - 1,
                       !.out = @ \ {ptr}]
  IN  IF P2.pages[page].used_count = 0
        THEN [_unlink_page(P2, "partial", page) EXCEPT !.pages[page] = NoPage]
      ELSE P2

PoolAlloc ==
  /\ pool.partial_pages # NULL \/ FreePageAddrs(pool) # {}
  /\ pool' = [dynamic_pool_alloc(pool).pool EXCEPT !.last = "alloc"]
  /\ UNCHANGED <<dvars, hvars, kq, hmax, exited, oom, aq,
               symbol_table,
               symreg, ls, fq>>

\* the caller frees a block it was handed and has not freed yet
PoolFree(ptr) ==
  /\ ptr \in pool.out
  /\ LET P == dynamic_pool_free(pool, ptr)
     IN  pool' = [P EXCEPT !.last = IF P.pages[ptr[1]].live THEN "free"
                                    ELSE "shrink"]
  /\ UNCHANGED <<dvars, hvars, kq, hmax, exited, oom, aq,
               symbol_table,
               symreg, ls, fq>>

PoolNext ==
  \/ PoolAlloc
  \/ \E ptr \in pool.out : PoolFree(ptr)

\* the pool in the runs that do not exercise it
PoolRest == pool = dynamic_pool_create(1)

(***************************************************************************)
(* The symbol table of hmap.h.  A 64-bit word is the sequence of its bits, *)
(* least significant first, so that _hmap_hash is computed in full.        *)
(***************************************************************************)
HMAP_INITIAL_CAPACITY == 2
HMAP_LOAD_FACTOR_PERCENT == 85

\* hmap_put and hmap_remove calls in one run
MaxMapOps == 5

\* the keys and the values handed to the table; with mask 3 the keys 0, 3,
\* 8 and 4 have home slot 0, with mask 7 key 4 has home slot 4; key 2 has
\* home slot 2 with both
HKeys == {0, 3, 8, 4, 2}
HVals == {1, 2}

WordBits == 64

\* (uint64_t)k for 0 <= k < 2^31
ToWord(k) ==
  [i \in 1..WordBits |-> IF i <= 31 THEN (k \div 2^(i - 1)) % 2 ELSE 0]

\* the word written as 16 hexadecimal digits, most significant first
HexWord(ds) ==
  [i \in 1..WordBits |->
     (ds[16 - ((i - 1) \div 4)] \div 2^((i - 1) % 4)) % 2]

\* x ^ (x >> s)
XorShr(x, s) ==
  [i \in 1..WordBits |->
     (x[i] + (IF i + s <= WordBits THEN x[i + s] ELSE 0)) % 2]

\* the bits i.. of x * c modulo 2^64, by columns with carry
RECURSIVE MulBits(_, _, _, _)
MulBits(x, c, i, carry) ==
  IF i > WordBits THEN <<>>
  ELSE LET sum == carry + Cardinality({j \in 1..i : x[j] = 1 /\ c[i - j + 1] = 1})
       IN  <<sum % 2>> \o MulBits(x, c, i + 1, sum \div 2)

\* 0xbf58476d1ce4e5b9 and 0x94d049bb133111eb
MixA == HexWord(<<11, 15, 5, 8, 4, 7, 6, 13, 1, 12, 14, 4, 14, 5, 11, 9>>)
MixB == HexWord(<<9, 4, 13, 0, 4, 9, 11, 11, 1, 3, 3, 1, 1, 1, 14, 11>>)

_hmap_hash(k) ==
  LET x0 == ToWord(k)
      x1 == MulBits(XorShr(x0, 30), MixA, 1, 0)
      x2 == MulBits(XorShr(x1, 27), MixB, 1, 0)
  IN  XorShr(x2, 31)

\* the mixed hash of every key, computed once
HashOf == [k \in HKeys |-> _hmap_hash(k)]

\* the value of the low n bits of a word
RECURSIVE LowBits(_, _)
LowBits(x, n) ==
  IF n = 0 THEN 0 ELSE x[n] * 2^(n - 1) + LowBits(x, n - 1)

\* _hmap_hash(key) & mask for a mask 2^n - 1 < 2^16
HmapHome(key, mask) == LowBits(HashOf[key], 16) % (mask + 1)

HmapEmpty == [key |-> 0, value |-> NULL, psl |-> 0]

hmap_create ==
  [ entries   |-> [i \in 0..(HMAP_INITIAL_CAPACITY - 1) |-> HmapEmpty],
    capacity  |-> HMAP_INITIAL_CAPACITY,
    count     |-> 0,
    mask      |-> HMAP_INITIAL_CAPACITY - 1,
    threshold |-> (HMAP_INITIAL_CAPACITY * HMAP_LOAD_FACTOR_PERCENT) \div 100 ]

\* the inner while loop of _hmap_resize
RECURSIVE HmapResizePlace(_, _, _, _)
HmapResizePlace(es, mask, idx, entry) ==
  IF es[idx].psl = 0 THEN [es EXCEPT ![idx] = entry]
  ELSE LET sw  == entry.psl > es[idx].psl
           es2 == IF sw THEN [es EXCEPT ![idx] = entry] ELSE es
           e2  == IF sw THEN es[idx] ELSE entry
       IN  HmapResizePlace(es2, mask, (idx + 1) % (mask + 1),
                           [e2 EXCEPT !.psl = @ + 1])

\* the for loop of _hmap_resize: the new entries and the new count
RECURSIVE HmapResizeLoop(_, _, _, _, _)
HmapResizeLoop(old, old_capacity, i, m, mask) ==
  IF i >= old_capacity THEN m
  ELSE IF old[i].psl > 0
    THEN HmapResizeLoop(old, old_capacity, i + 1,
           [entries |-> HmapResizePlace(m.entries, mask,
                          HmapHome(old[i].key, mask),
                          [old[i] EXCEPT !.psl = 1]),
            count |-> m.count + 1],
           mask)
  ELSE HmapResizeLoop(old, old_capacity, i + 1, m, mask)

\* a resize that keeps the threshold of the old capacity
hmap_resize_KeepThreshold(map, new_capacity) ==
  LET r == HmapResizeLoop(map.entries, map.capacity, 0,
             [entries |-> [i \in 0..(new_capacity - 1) |-> HmapEmpty],
              count |-> 0],
             new_capacity - 1)
  IN  [ entries |-> r.entries, capacity |-> new_capacity, count |-> r.count,
        mask |-> new_capacity - 1, threshold |-> map.threshold ]

_hmap_resize(map, new_capacity) ==
  LET r == HmapResizeLoop(map.entries, map.capacity, 0,
             [entries |-> [i \in 0..(new_capacity - 1) |-> HmapEmpty],
              count |-> 0],
             new_capacity - 1)
  IN  [ entries   |-> r.entries,
        capacity  |-> new_capacity,
        count     |-> r.count,
        mask      |-> new_capacity - 1,
        threshold |-> (new_capacity * HMAP_LOAD_FACTOR_PERCENT) \div 100 ]

\* the while loop of hmap_put: the entries and whether count is incremented
RECURSIVE HmapPutProbe(_, _, _, _, _, _)
HmapPutProbe(es, mask, idx, entry_to_insert, key, value) ==
  LET curr == es[idx] IN
  IF curr.psl = 0
    THEN [entries |-> [es EXCEPT ![idx] = entry_to_insert], inserted |-> 1]
  ELSE IF curr.key = key
    THEN [entries |-> [es EXCEPT ![idx].value = value], inserted |-> 0]
  ELSE LET sw  == entry_to_insert.psl > curr.psl
           es2 == IF sw THEN [es EXCEPT ![idx] = entry_to_insert] ELSE es
           e2  == IF sw THEN curr ELSE entry_to_insert
       IN  HmapPutProbe(es2, mask, (idx + 1) % (mask + 1),
                        [e2 EXCEPT !.psl = @ + 1], key, value)

hmap_put(map, key, value) ==
  LET m1 == IF map.count >= map.threshold
              THEN _hmap_resize(map, map.capacity * 2)
            ELSE map
      r  == HmapPutProbe(m1.entries, m1.mask, HmapHome(key, m1.mask),
                         [key |-> key, value |-> value, psl |-> 1],
                         key, value)
  IN  [m1 EXCEPT !.entries = r.entries, !.count = @ + r.inserted]

\* the while loop of hmap_get
RECURSIVE HmapGetProbe(_, _, _, _, _)
HmapGetProbe(es, mask, idx, current_psl, key) ==
  LET curr == es[idx] IN
  IF curr.psl = 0 THEN NULL
  ELSE IF curr.key = key THEN curr.value
  ELSE IF curr.psl < current_psl THEN NULL
  ELSE HmapGetProbe(es, mask, (idx + 1) % (mask + 1), current_psl + 1, key)

\* a lookup that gives up at the first slot that holds another key
hmap_get_HomeOnly(map, key) ==
  LET curr == map.entries[HmapHome(key, map.mask)]
  IN  IF curr.psl > 0 /\ curr.key = key THEN curr.value ELSE NULL

hmap_get(map, key) ==
  HmapGetProbe(map.entries, map.mask, HmapHome(key, map.mask), 1, key)

\* the inner while loop of hmap_remove: the backward shift from idx
RECURSIVE HmapShift(_, _, _)
HmapShift(es, mask, idx) ==
  LET next_idx == (idx + 1) % (mask + 1) IN
  IF es[next_idx].psl <= 1
    THEN [es EXCEPT ![idx] = HmapEmpty]
  ELSE HmapShift([es EXCEPT ![idx] = [es[next_idx] EXCEPT !.psl = @ - 1]],
                 mask, next_idx)

\* the outer while loop of hmap_remove
RECURSIVE HmapRemoveProbe(_, _, _, _, _)
HmapRemoveProbe(es, mask, idx, current_psl, key) ==
  LET curr == es[idx] IN
  IF curr.psl = 0 \/ current_psl > curr.psl
    THEN [entries |-> es, ret |-> FALSE]
  ELSE IF curr.key = key
    THEN [entries |-> HmapShift(es, mask, idx), ret |-> TRUE]
  ELSE HmapRemoveProbe(es, mask, (idx + 1) % (mask + 1), current_psl + 1,
                       key)

\* hmap_remove: the table after the call and the value returned
hmap_remove(map, key) ==
  LET r == HmapRemoveProbe(map.entries, map.mask, HmapHome(key, map.mask),
                           1, key)
  IN  [map |-> [map EXCEPT !.entries = r.entries,
                           !.count = IF r.ret THEN @ - 1 ELSE @],
       ret |-> r.ret]

\* the table after hmap_create, the map it stands for (NULL: no entry),
\* the calls made, and the last call with what it returned
HmapStart ==
  [ map  |-> hmap_create,
    ref  |-> [k \in HKeys |-> NULL],
    nops |-> 0,
    last |-> [op |-> "create", key |-> 0, ret |-> FALSE] ]

HmapRest == symbol_table = HmapStart

HmapPut(key, value) ==
  /\ symbol_table.nops < MaxMapOps
  /\ symbol_table' =
       [ map  |-> hmap_put(symbol_table.map, key, value),
         ref  |-> [symbol_table.ref EXCEPT ![key] = value],
         nops |-> symbol_table.nops + 1,
         last |-> [op |-> "put", key |-> key, ret |-> TRUE] ]
  /\ UNCHANGED <<dvars, hvars, kq, hmax, exited, pool, oom, aq,
               symreg, ls, fq>>

HmapRemove(key) ==
  /\ symbol_table.nops < MaxMapOps
  /\ LET r == hmap_remove(symbol_table.map, key)
     IN  symbol_table' =
           [ map  |-> r.map,
             ref  |-> [symbol_table.ref EXCEPT ![key] = NULL],
             nops |-> symbol_table.nops + 1,
             last |-> [op |-> "remove", key |-> key, ret |-> r.ret] ]
  /\ UNCHANGED <<dvars, hvars, kq, hmax, exited, pool, oom, aq,
               symreg, ls, fq>>

HmapNext ==
  \/ \E key \in HKeys, value \in HVals : HmapPut(key, value)
  \/ \E key \in HKeys : HmapRemove(key)

(***************************************************************************)
(* get_symbol_id.  siphash_cstr with the key of the process is a function  *)
(* from names to 64-bit values; which one is fixed by the 16 random bytes  *)
(* init_runtime reads, so it is drawn when the process starts.  The hash   *)
(* values stand among the keys of the table, so that names can collide.    *)
(***************************************************************************)
Names == {"int", "str", "list"}

\* (int32_t)key: the keys drawn here lie in 0 .. 2^31 - 1, where the
\* conversion of the int64_t to the int32_t returned keeps the value
Int32Of(key) == key

NoSyms == [sip |-> [n \in Names |-> 0], returned |-> {}, last |-> ""]

SymRest == symreg = NoSyms

\* a get_symbol_id whose result counts the calls made so far
get_symbol_id_CountCalls(map, key, calls) ==
  [map |-> map, id |-> key + calls]

\* get_symbol_id for a name whose siphash is key: the table afterwards and
\* the ID returned; calls is the number of calls made before
get_symbol_id(map, key, calls) ==
  LET existing == hmap_get(map, key)
  IN  IF existing # NULL THEN [map |-> map, id |-> Int32Of(key)]
      ELSE [map |-> hmap_put(map, key, 1), id |-> Int32Of(key)]

GetSymbolId(name) ==
  /\ symbol_table.nops < MaxMapOps
  /\ LET key == symreg.sip[name]
         r   == get_symbol_id(symbol_table.map, key, symbol_table.nops)
     IN  /\ symbol_table' =
               [ map  |-> r.map,
                 ref  |-> [symbol_table.ref EXCEPT ![key] = 1],
                 nops |-> symbol_table.nops + 1,
                 last |-> [op |-> "get_symbol_id", key |-> key, ret |-> TRUE] ]
         /\ symreg' = [symreg EXCEPT !.returned = @ \cup {<<name, r.id>>},
                                     !.last = name]
  /\ UNCHANGED <<dvars, hvars, kq, hmax, exited, pool, oom, aq, ls, fq>>

SymNext == \E name \in Names : GetSymbolId(name)

(***************************************************************************)
(* The List with its items in slot order.  The state S the list functions  *)
(* act on holds the fields of one List (size, capacity, items, __dict__),  *)
(* the refcounts of the objects it can reference, the blocks that are      *)
(* allocated, and what the last call returned or aborted with.  A request  *)
(* for memory is granted (ok) or refused.                                  *)
(***************************************************************************)
\* calls made on one list
MaxSeqOps == 4

\* the objects stored in the list, and the items of a second list built by
\* alloc_list_prefill that the list is extended with
Elems == {1, 2}
OtherLists == {<<1>>, <<1, 2, 1>>}

FnObj(i) == NameObj(Len(Methods)) + i
FnObjs == {FnObj(i) : i \in 1..Len(Methods)}
RcObjs == Elems \cup NameObjs \cup FnObjs

\* what a slot holds that no store has written
Junk == NULL - 1

\* the __dict__ of an object that has none
NoDict == [live |-> FALSE]

NoCall == [op |-> "", on |-> "", a |-> NULL, b |-> NULL]

NoList ==
  [ made |-> FALSE, refcount |-> 0, size |-> 0, capacity |-> 0,
    items |-> <<>>,      \* slot i of the items buffer, i in 0..capacity-1
    buf |-> NULL,        \* the items pointer: the number of the buffer
    bufs |-> 0,          \* buffers handed out so far
    dict |-> NoDict,     \* __dict__
    other |-> <<>>,      \* the items of the second list
    rc |-> [o \in RcObjs |-> 0], freed |-> {}, uaf |-> FALSE,
    live |-> {},         \* blocks allocated and not released
    fns |-> {},          \* function objects allocated and not released
    err |-> "",          \* the error the process exited with
    ret |-> NULL,        \* what the last call returned
    last |-> NoCall, nops |-> 0 ]

\* dict_set on a dict value: the dict afterwards, the branch taken and the
\* value an update replaced
dict_set(dd, key, value, fr, u) ==
  LET d1 == IF dd.count >= dd.threshold
              THEN dict_resize(dd, dd.capacity * 2) ELSE dd
      h  == hash(key)
      r  == SetProbe(d1.entries, d1.mask, HomeIdx(h, d1.mask),
                     [key |-> key, value |-> value, hash |-> h, psl |-> 1],
                     key, h, value, fr, u)
  IN  [ d    |-> [d1 EXCEPT !.entries = r.entries,
                            !.count = IF r.kind = "insert" THEN @ + 1 ELSE @],
        kind |-> r.kind, old |-> r.old ]

\* the refcounts and the __dict__ after the dict_set of NgSetMember took
\* the branch r.kind
MemberStored(S, r, member, value) ==
  [(CASE r.kind = "insert" -> INCREF(INCREF(S, member), value)
      [] r.kind = "update" -> INCREF(DECREF(S, r.old), value)
      [] OTHER -> S)
     EXCEPT !.dict = r.d, !.live = @ \cup {"__dict__", "entries"}]

\* NgSetMember on the list: the __dict__ is allocated on the first call
NgSetMember(S, member, value) ==
  MemberStored(S, dict_set(IF S.dict = NoDict THEN alloc_dict ELSE S.dict,
                           member, value, S.freed, FALSE),
               member, value)

\* instance->__dict__ of the list, of an instance, and of the string,
\* whose block alloc_str gets zeroed and never gives a dict
DictOf(S, ii) == IF ii \in {"list", "instance"} THEN S.dict ELSE NoDict

\* a NgGetMember that hands out the reference of the dict
NgGetMember_Borrowed(S, ii, member) ==
  IF DictOf(S, ii) = NoDict THEN [S EXCEPT !.ret = NULL]
  ELSE [S EXCEPT !.ret = dict_get(DictOf(S, ii), member, S.freed, FALSE)]

\* NgGetMember on the list or the string
NgGetMember(S, ii, member) ==
  IF DictOf(S, ii) = NoDict THEN [S EXCEPT !.ret = NULL]
  ELSE LET value == dict_get(DictOf(S, ii), member, S.freed, FALSE)
       IN  [INCREF(S, value) EXCEPT !.ret = value]

\* alloc_function for the i-th method: a function object of refcount 1
AllocFunction(S, i) ==
  [S EXCEPT !.rc[FnObj(i)] = 1, !.fns = @ \cup {FnObj(i)}]

\* an add_list_functions without the call for the last name
RECURSIVE AddListFunctions_NoExtend(_, _)
AddListFunctions_NoExtend(S, i) ==
  IF i > Len(Methods) - 1 THEN S
  ELSE AddListFunctions_NoExtend(
         NgSetMember(AllocFunction(S, i), NameObj(i), FnObj(i)), i + 1)

\* the NgSetMember calls of add_list_functions from the i-th on
RECURSIVE AddListFunctions(_, _)
AddListFunctions(S, i) ==
  IF i > Len(Methods) THEN S
  ELSE AddListFunctions(
         NgSetMember(AllocFunction(S, i), NameObj(i), FnObj(i)), i + 1)

\* list_init
ListInitItems(S, initial_capacity, ok) ==
  LET capacity == IF initial_capacity > 0 THEN initial_capacity
                  ELSE LIST_DEFAULT_CAPACITY
  IN  IF ~ok THEN [S EXCEPT !.size = 0, !.capacity = capacity,
                            !.buf = NULL, !.err = "MemoryError"]
      ELSE [S EXCEPT !.size = 0, !.capacity = capacity,
                     !.items = [i \in 0..(capacity - 1) |-> Junk],
                     !.buf = S.bufs + 1, !.bufs = @ + 1,
                     !.live = @ \cup {"items"}]

\* the header stores shared by the three list constructors
ListHeader(S) ==
  [S EXCEPT !.made = TRUE, !.refcount = 1, !.dict = NoDict,
            !.live = @ \cup {"list"}]

\* alloc_list with the ordered items
AllocListItems(S, ok) ==
  LET S1 == ListInitItems(ListHeader(S), 1, ok)
  IN  IF S1.err # "" THEN S1 ELSE AddListFunctions(S1, 1)

\* alloc_list_empty(capacity): the first capacity slots are set to NULL
AllocListEmptyItems(S, capacity, ok) ==
  LET S1 == ListInitItems(ListHeader(S), capacity, ok)
  IN  IF S1.err # "" THEN S1
      ELSE AddListFunctions(
             [S1 EXCEPT !.items = [i \in DOMAIN S1.items |->
                                     IF i < capacity THEN NULL
                                     ELSE S1.items[i]]], 1)

\* the loop of alloc_list_prefill from the i-th item on
RECURSIVE PrefillLoop(_, _, _)
PrefillLoop(S, its, i) ==
  IF i > Len(its) THEN S
  ELSE PrefillLoop(INCREF([S EXCEPT !.items[i - 1] = its[i]], its[i]),
                   its, i + 1)

\* alloc_list_prefill(size, items)
AllocListPrefillItems(S, its, ok) ==
  LET S1 == ListInitItems(ListHeader(S), Len(its), ok)
  IN  IF S1.err # "" THEN S1
      ELSE AddListFunctions(
             PrefillLoop([S1 EXCEPT !.size = Len(its)], its, 1), 1)

\* the copy into a new items buffer in list_append and list_add
GrowItems(S, new_capacity) ==
  [S EXCEPT !.items = [i \in 0..(new_capacity - 1) |->
                         IF i < S.capacity THEN S.items[i] ELSE Junk],
            !.capacity = new_capacity,
            !.buf = S.bufs + 1, !.bufs = @ + 1]

\* a list_append that takes the new buffer whether or not it was granted
list_append_TakeNull(S, item, ok) ==
  LET S1 == IF S.size >= S.capacity
              THEN (IF ok THEN GrowItems(S, S.capacity * LIST_GROWTH)
                    ELSE [S EXCEPT !.buf = NULL])
              ELSE S
  IN  [S |-> [S1 EXCEPT !.items[S.size] = item, !.size = @ + 1],
       code |-> 0]

\* list_append: the state and the code returned
ListAppendItems(S, item, ok) ==
  IF S.size >= S.capacity /\ ~ok THEN [S |-> S, code |-> 0 - 1]
  ELSE LET S1 == IF S.size >= S.capacity
                   THEN GrowItems(S, S.capacity * LIST_GROWTH) ELSE S
       IN  [S |-> [S1 EXCEPT !.items[S.size] = item, !.size = @ + 1],
            code |-> 0]

\* NgAppend(self, item): the code of list_append is not looked at
NgAppendItems(S, item, ok) ==
  [ListAppendItems(INCREF(S, item), item, ok).S EXCEPT !.ret = NULL]

\* the first size slots of the list
Slots(S) == [j \in 1..S.size |-> S.items[j - 1]]

\* list_add with the items of other
ListAddItems(S, other, ok) ==
  LET total_needed == S.size + Len(other)
      grow == total_needed > S.capacity
  IN  IF grow /\ ~ok THEN [S EXCEPT !.err = "MemoryError"]
      ELSE LET S1 == IF grow
                       THEN GrowItems(S, NewCapacity(S.capacity, total_needed))
                       ELSE S
           IN  [S1 EXCEPT !.items =
                            [i \in DOMAIN S1.items |->
                               IF i >= S.size /\ i < total_needed
                                 THEN other[i - S.size + 1]
                               ELSE S1.items[i]],
                          !.size = total_needed, !.ret = NULL]

\* the loop of list_find from slot i on
RECURSIVE FindLoop(_, _, _)
FindLoop(S, item, i) ==
  IF i >= S.size THEN 0 - 1
  ELSE IF S.items[i] = item THEN i
  ELSE FindLoop(S, item, i + 1)

\* a list_find that searches from the last slot down
RECURSIVE FindLoopDown(_, _, _)
FindLoopDown(S, item, i) ==
  IF i < 0 THEN 0 - 1
  ELSE IF S.items[i] = item THEN i
  ELSE FindLoopDown(S, item, i - 1)

list_find_Last(S, item) == FindLoopDown(S, item, S.size - 1)

list_find(S, item) == FindLoop(S, item, 0)

\* a list_remove that moves the last item into the freed slot
list_remove_SwapLast(S, index) ==
  IF index >= S.size THEN [S EXCEPT !.ret = NULL]
  ELSE [S EXCEPT !.items[index] = S.items[S.size - 1],
                 !.size = @ - 1, !.ret = S.items[index]]

\* list_remove: memmove of the slots after index, one slot down
list_remove(S, index) ==
  IF index >= S.size THEN [S EXCEPT !.ret = NULL]
  ELSE LET num_to_move == S.size - index - 1
       IN  [S EXCEPT !.items =
                       [i \in DOMAIN S.items |->
                          IF i >= index /\ i < index + num_to_move
                            THEN S.items[i + 1] ELSE S.items[i]],
                     !.size = @ - 1, !.ret = S.items[index]]

\* NgIndex(self, item): the int object returned holds the index
NgIndex(S, item) ==
  LET index == list_find(S, item)
  IN  IF index = 0 - 1 THEN [S EXCEPT !.err = "ValueError"]
      ELSE [S EXCEPT !.ret = index]

\* NgRemove(self, item)
NgRemove(S, item) ==
  LET index == list_find(S, item)
  IN  IF index = 0 - 1 THEN [S EXCEPT !.err = "ValueError"]
      ELSE LET S1 == list_remove(S, index)
           IN  [(IF S1.ret # NULL THEN DECREF(S1, S1.ret) ELSE S1)
                  EXCEPT !.ret = NULL]

\* NgPop(self) for argc = 1 and NgPop(self, idx) for argc = 2
NgPop(S, argc, idx) ==
  IF argc = 2
    THEN IF idx < 0 THEN [S EXCEPT !.err = "IndexError"]
         ELSE IF idx >= S.size THEN [S EXCEPT !.err = "IndexError"]
         ELSE list_remove(S, idx)
  ELSE IF argc = 1
    THEN IF S.size = 0 THEN [S EXCEPT !.err = "IndexError"]
         ELSE [S EXCEPT !.ret = S.items[S.size - 1], !.size = @ - 1]
  ELSE [S EXCEPT !.err = "TypeError"]

\* the DECREF loop over the first size slots, from slot i on
RECURSIVE ItemsDecref(_, _)
ItemsDecref(S, i) ==
  IF i >= S.size THEN S
  ELSE ItemsDecref(DECREF(S, S.items[i]), i + 1)

\* NgClearList(self)
NgClearList(S) == [ItemsDecref(S, 0) EXCEPT !.size = 0, !.ret = NULL]

\* DECREF(list) by the holder of its one reference: the list branch
DecrefList(S) ==
  [ItemsDecref(S, 0) EXCEPT !.refcount = 0, !.buf = NULL,
                            !.live = @ \ {"items", "list"}, !.ret = NULL]

\* the containers NgGetItem and NgSetItem are called with: the list, a
\* tuple of two items, the __dict__ of the list, a string, and NULL
TupleItems == <<1, 2>>

Container(S, kind) ==
  CASE kind = "list"  -> [ptr |-> 1, tag |-> OBJ_TYPE_LIST]
    [] kind = "tuple" -> [ptr |-> 1, tag |-> OBJ_TYPE_TUPLE]
    [] kind = "dict"  -> [ptr |-> 1, tag |-> OBJ_TYPE_DICT]
    [] kind = "str"   -> [ptr |-> 1, tag |-> OBJ_TYPE_STRING]
    [] OTHER          -> [ptr |-> NULL, tag |-> OBJ_TYPE_BASE]

\* an index normalisation that adds the length until the index is not
\* negative
RECURSIVE Normalise_Repeat(_, _)
Normalise_Repeat(index, size) ==
  IF index < 0 /\ size > 0 THEN Normalise_Repeat(index + size, size)
  ELSE index

\* if (idx < 0) idx += size
Normalise(index, size) == IF index < 0 THEN index + size ELSE index

\* NgGetItem(obj, index); index is the int NgCastToInt gives for a list or
\* tuple and the key object for a dict
NgGetItem(S, c, index) ==
  IF c.ptr = NULL THEN [S EXCEPT !.err = "TypeError"]
  ELSE CASE c.tag = OBJ_TYPE_LIST ->
              LET idx == Normalise(index, S.size)
              IN  IF idx < 0 \/ idx >= S.size
                    THEN [S EXCEPT !.err = "IndexError"]
                  ELSE [S EXCEPT !.ret = S.items[idx]]
         [] c.tag = OBJ_TYPE_TUPLE ->
              LET idx == Normalise(index, Len(TupleItems))
              IN  IF idx < 0 \/ idx >= Len(TupleItems)
                    THEN [S EXCEPT !.err = "IndexError"]
                  ELSE [S EXCEPT !.ret = TupleItems[idx + 1]]
         [] c.tag = OBJ_TYPE_DICT ->
              LET value == dict_get(S.dict, index, S.freed, FALSE)
              IN  IF value = NULL THEN [S EXCEPT !.err = "KeyError"]
                  ELSE [S EXCEPT !.ret = value]
         [] OTHER -> [S EXCEPT !.err = "TypeError"]

\* a set_item whose list case stores the value and leaves the reference of
\* the value it replaces
NgSetItem_KeepOld(S, c, index, value) ==
  IF c.ptr = NULL THEN [S EXCEPT !.err = "TypeError"]
  ELSE CASE c.tag = OBJ_TYPE_LIST ->
              LET idx == Normalise(index, S.size)
              IN  IF idx < 0 \/ idx >= S.size
                    THEN [S EXCEPT !.err = "IndexError"]
                  ELSE IF S.items[idx] # value
                    THEN [INCREF(S, value) EXCEPT
                            !.items[idx] = value, !.ret = NULL]
                  ELSE [S EXCEPT !.ret = NULL]
         [] c.tag = OBJ_TYPE_DICT ->
              [NgSetMember(S, index, value) EXCEPT !.ret = NULL]
         [] c.tag = OBJ_TYPE_TUPLE -> [S EXCEPT !.err = "TypeError"]
         [] OTHER -> [S EXCEPT !.err = "TypeError"]

\* NgSetItem(obj, index, value)
NgSetItem(S, c, index, value) ==
  IF c.ptr = NULL THEN [S EXCEPT !.err = "TypeError"]
  ELSE CASE c.tag = OBJ_TYPE_LIST ->
              LET idx == Normalise(index, S.size)
              IN  IF idx < 0 \/ idx >= S.size
                    THEN [S EXCEPT !.err = "IndexError"]
                  ELSE IF S.items[idx] # value
                    THEN LET old_value == S.items[idx]
                             S1 == [INCREF(S, value) EXCEPT
                                      !.items[idx] = value, !.ret = NULL]
                         IN  IF old_value # NULL THEN DECREF(S1, old_value)
                             ELSE S1
                  ELSE [S EXCEPT !.ret = NULL]
         [] c.tag = OBJ_TYPE_DICT ->
              [NgSetMember(S, index, value) EXCEPT !.ret = NULL]
         [] c.tag = OBJ_TYPE_TUPLE -> [S EXCEPT !.err = "TypeError"]
         [] OTHER -> [S EXCEPT !.err = "TypeError"]

\* how many slots of the sequence its hold x
RECURSIVE CountIn(_, _)
CountIn(its, x) ==
  IF its = <<>> THEN 0
  ELSE (IF Head(its) = x THEN 1 ELSE 0) + CountIn(Tail(its), x)

\* before the constructor runs: the code holds one reference to every
\* element, the runtime one to every method name, and the second list one
\* for every slot
ListStart(other) ==
  [NoList EXCEPT !.other = other,
                 !.rc = [o \in RcObjs |->
                           IF o \in Elems THEN 1 + CountIn(other, o)
                           ELSE IF o \in NameObjs THEN 1 ELSE 0]]

ListRest == ls = NoList

\* the list is there, referenced, and the process runs
Active ==
  /\ ls.made /\ ls.refcount > 0
  /\ ls.err = "" /\ ~ls.uaf
  /\ ls.nops < MaxSeqOps

\* a pointer the code can pass: an object it still holds
Passable(x) == x \notin ls.freed

Call(S, op, on, a, b) ==
  /\ ls' = [S EXCEPT !.nops = ls.nops + 1,
                     !.last = [op |-> op, on |-> on, a |-> a, b |-> b]]
  /\ UNCHANGED <<dvars, hvars, kq, hmax, exited, pool, oom, aq,
                 symbol_table, symreg, fq>>

Unbuilt == ~ls.made /\ ls.err = ""

ListNew(ok) == Unbuilt /\ 
  Call(AllocListItems(ls, ok), "alloc_list", "list", NULL, NULL)

ListNewEmpty(capacity, ok) ==
  Unbuilt /\ Call(AllocListEmptyItems(ls, capacity, ok), "alloc_list_empty",
                  "list", capacity, NULL)

ListNewPrefill(its, ok) ==
  Unbuilt /\ Call(AllocListPrefillItems(ls, its, ok), "alloc_list_prefill",
                  "list", Len(its), NULL)

ListAppend(x, ok) ==
  Active /\ Passable(x) /\ 
  Call(NgAppendItems(ls, x, ok), "append", "list", x, NULL)

\* extend(self, other) with the second list, and with the list itself
ListExtend(ok) ==
  Active /\ Call(ListAddItems(ls, ls.other, ok), "extend", "other", NULL, NULL)

ListExtendSelf(ok) ==
  Active /\ Call(ListAddItems(ls, Slots(ls), ok), "extend", "self", NULL, NULL)

ListPop == Active /\ Call(NgPop(ls, 1, NULL), "pop", "list", 1, NULL)

ListPopAt(idx) == Active /\ Call(NgPop(ls, 2, idx), "pop", "list", 2, idx)

ListRemove(x) ==
  Active /\ Passable(x) /\ Call(NgRemove(ls, x), "remove", "list", x, NULL)

ListIndex(x) ==
  Active /\ Passable(x) /\ Call(NgIndex(ls, x), "index", "list", x, NULL)

ListClear == Active /\ Call(NgClearList(ls), "clear", "list", NULL, NULL)

GetItem(kind, index) ==
  Active /\ Call(NgGetItem(ls, Container(ls, kind), index), "get_item",
                 kind, index, NULL)

SetItem(kind, index, x) ==
  Active /\ Passable(x)
  /\ Call(NgSetItem(ls, Container(ls, kind), index, x), "set_item",
          kind, index, x)

GetMember(i) ==
  Active /\
  Call(NgGetMember(ls, "list", NameObj(i)), "get_member", "list", i, NULL)

\* get_member on the list with a name it does not bind
GetMemberAbsent ==
  Active /\ Call(NgGetMember(ls, "list", AbsentName), "get_member", "list",
                 Len(Methods) + 1, NULL)

\* get_member on the string
GetMemberOfStr(i) ==
  Active /\
  Call(NgGetMember(ls, "str", NameObj(i)), "get_member", "str", i, NULL)

\* the function object get_member returned is called with (self, x)
CallAppend(x, ok) ==
  /\ Active /\ Passable(x)
  /\ ls.last.op = "get_member" /\ ls.ret = FnObj(1)
  /\ Call(NgAppendItems(ls, x, ok), "call", "append", x, NULL)

ListRelease == Active /\ Call(DecrefList(ls), "DECREF", "list", NULL, NULL)

\* the indexes the list and tuple calls are made with
Indexes == (0 - 3)..3

\* the keys the __dict__ is read and written with: an element, which is
\* no key of it, and the names of the first and the last method
DictKeys == {1, NameObj(1), NameObj(Len(Methods))}

ListNext ==
  \/ \E ok \in BOOLEAN : ListNew(ok)
  \/ \E capacity \in 0..2, ok \in BOOLEAN : ListNewEmpty(capacity, ok)
  \/ \E its \in {<<>>, <<1>>, <<2, 1, 2>>}, ok \in BOOLEAN :
       ListNewPrefill(its, ok)
  \/ \E x \in Elems, ok \in BOOLEAN : ListAppend(x, ok)
  \/ \E ok \in BOOLEAN : ListExtend(ok)
  \/ \E ok \in BOOLEAN : ListExtendSelf(ok)
  \/ ListPop
  \/ \E idx \in Indexes : ListPopAt(idx)
  \/ \E x \in Elems : ListRemove(x)
  \/ \E x \in Elems : ListIndex(x)
  \/ ListClear
  \/ \E index \in Indexes : GetItem("list", index)
  \/ \E index \in Indexes : GetItem("tuple", index)
  \/ \E key \in DictKeys : GetItem("dict", key)
  \/ \E kind \in {"str", "null"} : GetItem(kind, 0)
  \/ \E index \in Indexes, x \in Elems : SetItem("list", index, x)
  \/ \E index \in {0 - 1, 0, 3} : SetItem("tuple", index, 1)
  \/ \E kind \in {"str", "null"} : SetItem(kind, 0, 1)
  \/ \E key \in DictKeys, x \in Elems : SetItem("dict", key, x)
  \/ \E i \in 1..Len(Methods) : GetMember(i)
  \/ GetMemberAbsent
  \/ \E i \in {1, Len(Methods)} : GetMemberOfStr(i)
  \/ \E x \in Elems, ok \in BOOLEAN : CallAppend(x, ok)
  \/ ListRelease

FnRest == fq = <<>>

(***************************************************************************)
(* NgFloorDiv, NgMod and NgPow.  An operand is [tag, value]: an int object *)
(* with its int64_t value, a float object whose double holds an integer    *)
(* (so that / , floor and fmod on it are exact), or a string.  The values  *)
(* are far inside the int64_t range, where / % + - do not overflow; the    *)
(* multiplications of NgPow are done on 8-byte words and wrap.              *)
(***************************************************************************)
ArithBig == 2^12

ArithInts == ((0 - 8)..8) \cup {10, 41, 63, 64, ArithBig - 1, 0 - ArithBig}
ArithFloats == {0 - 7, 0 - 2, 0, 2, 7}

IntObj(v) == [tag |-> OBJ_TYPE_INT, value |-> v]
FloatObj(v) == [tag |-> OBJ_TYPE_FLOAT, value |-> v]

Operands ==
  {IntObj(v) : v \in ArithInts} \cup {FloatObj(v) : v \in ArithFloats}
    \cup {[tag |-> OBJ_TYPE_STRING, value |-> 0]}

Abs(n) == IF n < 0 THEN 0 - n ELSE n

\* a / b and a % b of C on integers: the quotient is truncated toward zero
\* and the remainder has the sign of a
CDiv(a, b) ==
  IF (a < 0) # (b < 0) THEN 0 - (Abs(a) \div Abs(b))
  ELSE Abs(a) \div Abs(b)

CRem(a, b) == a - b * CDiv(a, b)

Returns(ret) == [ret |-> ret, err |-> ""]
Exits(err) == [ret |-> NULL, err |-> err]

Numeric(o) == o.tag = OBJ_TYPE_FLOAT \/ o.tag = OBJ_TYPE_INT

\* a NgFloorDiv without the correction of the truncated quotient
NgFloorDiv_Truncate(a, b) ==
  IF a.tag = OBJ_TYPE_INT /\ b.tag = OBJ_TYPE_INT
    THEN IF b.value = 0 THEN Exits("ZeroDivisionError")
         ELSE Returns(IntObj(CDiv(a.value, b.value)))
  ELSE IF Numeric(a) /\ Numeric(b)
    THEN IF b.value = 0 THEN Exits("ZeroDivisionError")
         ELSE Returns(FloatObj(CDiv(a.value, b.value)))
  ELSE Exits("TypeError")

\* NgFloorDiv; floor(val_a / val_b) on doubles holding integers is the
\* truncated quotient, less one when it is negative and inexact
NgFloorDiv(a, b) ==
  IF a.tag = OBJ_TYPE_INT /\ b.tag = OBJ_TYPE_INT
    THEN IF b.value = 0 THEN Exits("ZeroDivisionError")
         ELSE LET result == CDiv(a.value, b.value)
              IN  IF CRem(a.value, b.value) # 0
                       /\ ((a.value < 0) # (b.value < 0))
                    THEN Returns(IntObj(result - 1))
                  ELSE Returns(IntObj(result))
  ELSE IF Numeric(a) /\ Numeric(b)
    THEN IF b.value = 0 THEN Exits("ZeroDivisionError")
         ELSE LET q == CDiv(a.value, b.value)
              IN  IF q * b.value # a.value /\ ((a.value < 0) # (b.value < 0))
                    THEN Returns(FloatObj(q - 1))
                  ELSE Returns(FloatObj(q))
  ELSE Exits("TypeError")

\* NgMod; fmod on doubles holding integers is the remainder of C
NgMod(a, b) ==
  IF a.tag = OBJ_TYPE_INT /\ b.tag = OBJ_TYPE_INT
    THEN IF b.value = 0 THEN Exits("ZeroDivisionError")
         ELSE LET result == CRem(a.value, b.value)
              IN  IF result # 0 /\ ((b.value < 0) # (result < 0))
                    THEN Returns(IntObj(result + b.value))
                  ELSE Returns(IntObj(result))
  ELSE IF Numeric(a) /\ Numeric(b)
    THEN IF b.value = 0 THEN Exits("ZeroDivisionError")
         ELSE LET result == CRem(a.value, b.value)
              IN  IF result # 0 /\ ((b.value < 0) # (result < 0))
                    THEN Returns(FloatObj(result + b.value))
                  ELSE Returns(FloatObj(result))
  ELSE Exits("TypeError")

\* An int64_t in NgPow is the sequence of its 8 bytes in two's complement,
\* the least significant first.
Int64Bytes == 8
ByteRange == 256

\* (int64_t)n for -2^31 < n < 2^31
Int64Word(n) ==
  IF n >= 0
    THEN [i \in 1..Int64Bytes |->
            IF i <= 4 THEN (n \div ByteRange^(i - 1)) % ByteRange ELSE 0]
  ELSE [i \in 1..Int64Bytes |->
          ByteRange - 1 -
            (IF i <= 4 THEN ((0 - n - 1) \div ByteRange^(i - 1)) % ByteRange
             ELSE 0)]

\* the product of byte j of x and the byte of y that falls with it into
\* byte i of x * y
Term(x, y, i, j) == IF j <= i THEN x[j] * y[i - j + 1] ELSE 0

\* the products of the bytes of x and y that fall into byte i
ColumnSum(x, y, i) ==
  Term(x, y, i, 1) + Term(x, y, i, 2) + Term(x, y, i, 3) + Term(x, y, i, 4)
    + Term(x, y, i, 5) + Term(x, y, i, 6) + Term(x, y, i, 7)
    + Term(x, y, i, 8)

\* x * y on int64_t, the low 64 bits of the product
Mul64(x, y) ==
  LET s1 == ColumnSum(x, y, 1)
      s2 == s1 \div ByteRange + ColumnSum(x, y, 2)
      s3 == s2 \div ByteRange + ColumnSum(x, y, 3)
      s4 == s3 \div ByteRange + ColumnSum(x, y, 4)
      s5 == s4 \div ByteRange + ColumnSum(x, y, 5)
      s6 == s5 \div ByteRange + ColumnSum(x, y, 6)
      s7 == s6 \div ByteRange + ColumnSum(x, y, 7)
      s8 == s7 \div ByteRange + ColumnSum(x, y, 8)
  IN  <<s1 % ByteRange, s2 % ByteRange, s3 % ByteRange, s4 % ByteRange,
        s5 % ByteRange, s6 % ByteRange, s7 % ByteRange, s8 % ByteRange>>

\* a loop that squares before it multiplies
RECURSIVE PowLoop_SquareFirst(_, _, _, _)
PowLoop_SquareFirst(result, current, e, n) ==
  IF e > 0 /\ Len(result) = Len(current)
    THEN PowLoop_SquareFirst(
           IF e % 2 = 1 THEN Mul64(result, Mul64(current, current))
           ELSE result,
           Mul64(current, current), e \div 2, n + 1)
  ELSE [word |-> result, squarings |-> n]

\* the while loop of NgPow; n counts its iterations.  result and current
\* are int64_t, words of equal length: the test on their lengths is always
\* true and has both words computed in the iteration that assigns them
RECURSIVE PowLoop(_, _, _, _)
PowLoop(result, current, e, n) ==
  IF e > 0 /\ Len(result) = Len(current)
    THEN PowLoop(IF e % 2 = 1 THEN Mul64(result, current) ELSE result,
                 Mul64(current, current), e \div 2, n + 1)
  ELSE [word |-> result, squarings |-> n]

\* NgPow; the int returned is given by its 8 bytes, the double pow()
\* returns is not computed
NgPow(base, exp) ==
  IF base.tag = OBJ_TYPE_INT /\ exp.tag = OBJ_TYPE_INT
    THEN IF exp.value < 0
           THEN Returns([tag |-> OBJ_TYPE_FLOAT, of |-> <<base, exp>>])
         ELSE LET r == PowLoop(Int64Word(1), Int64Word(base.value),
                               exp.value, 0)
              IN  Returns([tag |-> OBJ_TYPE_INT, word |-> r.word,
                           squarings |-> r.squarings])
  ELSE IF Numeric(base) /\ Numeric(exp)
    THEN Returns([tag |-> OBJ_TYPE_FLOAT, of |-> <<base, exp>>])
  ELSE Exits("TypeError")

NoResult == [ret |-> NULL, err |-> ""]

ArithStart(a, b) == [a |-> a, b |-> b, op |-> "", out |-> NoResult]

Applied(op, out) ==
  /\ fq.op = ""
  /\ fq' = [fq EXCEPT !.op = op, !.out = out]
  /\ UNCHANGED <<dvars, hvars, kq, hmax, exited, pool, oom, aq,
                 symbol_table, symreg, ls>>

FloorDiv == Applied("floor_div", NgFloorDiv(fq.a, fq.b))

Mod == Applied("mod", NgMod(fq.a, fq.b))

Pow == Applied("pow", NgPow(fq.a, fq.b))

ArithNext == FloorDiv \/ Mod \/ Pow

(***************************************************************************)
(* Strings.  alloc_str reads a NUL-terminated UTF-8 C string twice: once   *)
(* for the largest code point, the ASCII flag and the number of code       *)
(* points, once to store the code points in units of 1, 2 or 4 bytes.      *)
(* string_cstr_tmp gives the string back as a C string.  Bytes are numbers *)
(* in 0..255; a C string is written without its terminator.                *)
(***************************************************************************)
\* the longest input, in code points
MaxCodePoints == 2

\* code points at both ends of the 1-, 2-, 3- and 4-byte ranges, at both
\* sides of the limits of the 1-byte and 2-byte storage, and A, e acute,
\* U+6F22 and U+1F600
CodePoints ==
  {65, 127, 128, 233, 255, 256, 2047, 2048, 28450, 65535, 65536, 128512,
   1114111}

\* the well-formed UTF-8 form of one code point
WellFormed(cp) ==
  IF cp < 128 THEN <<cp>>
  ELSE IF cp < 2048 THEN <<192 + (cp \div 64), 128 + (cp % 64)>>
  ELSE IF cp < 65536
    THEN <<224 + (cp \div 4096), 128 + ((cp \div 64) % 64), 128 + (cp % 64)>>
  ELSE <<240 + (cp \div 262144), 128 + ((cp \div 4096) % 64),
         128 + ((cp \div 64) % 64), 128 + (cp % 64)>>

RECURSIVE Utf8Bytes(_)
Utf8Bytes(cps) ==
  IF cps = <<>> THEN <<>> ELSE WellFormed(Head(cps)) \o Utf8Bytes(Tail(cps))

\* s[i] of a C string, counted from 1: the byte behind the last one is the
\* terminator
ByteAt(s, i) == IF i <= Len(s) THEN s[i] ELSE 0

\* utf8_decode(data + i - 1): c & 0xE0 == 0xC0 is c in 192..223, c & 0xF0 ==
\* 0xE0 is c in 224..239, c & 0xF8 == 0xF0 is c in 240..247; any other lead
\* byte above 0x7F leaves code point 0 and one byte
utf8_decode(s, i) ==
  LET c == ByteAt(s, i)
  IN  IF c <= 127 THEN [codepoint |-> c, bytes |-> 1]
      ELSE IF c \div 32 = 6
        THEN [codepoint |-> (c % 32) * 64 + (ByteAt(s, i + 1) % 64),
              bytes |-> 2]
      ELSE IF c \div 16 = 14
        THEN [codepoint |-> (c % 16) * 4096 + (ByteAt(s, i + 1) % 64) * 64
                              + (ByteAt(s, i + 2) % 64),
              bytes |-> 3]
      ELSE IF c \div 8 = 30
        THEN [codepoint |-> (c % 8) * 262144
                              + (ByteAt(s, i + 1) % 64) * 4096
                              + (ByteAt(s, i + 2) % 64) * 64
                              + (ByteAt(s, i + 3) % 64),
              bytes |-> 4]
      ELSE [codepoint |-> 0, bytes |-> 1]

\* utf8_encode(cp, out): the bytes written, for cp below 2^21
utf8_encode(cp) ==
  IF cp <= 127 THEN <<cp>>
  ELSE IF cp <= 2047 THEN <<192 + (cp \div 64), 128 + (cp % 64)>>
  ELSE IF cp <= 65535
    THEN <<224 + (cp \div 4096), 128 + ((cp \div 64) % 64), 128 + (cp % 64)>>
  ELSE <<240 + (cp \div 262144), 128 + ((cp \div 4096) % 64),
         128 + ((cp \div 64) % 64), 128 + (cp % 64)>>

\* a first pass that counts bytes where alloc_str counts code points
RECURSIVE FirstPass_CountBytes(_, _, _, _, _)
FirstPass_CountBytes(data, i, max_cp, is_ascii, real_length) ==
  IF i <= Len(data)
    THEN LET r == utf8_decode(data, i)
         IN  FirstPass_CountBytes(
               data, i + r.bytes,
               IF r.codepoint > max_cp THEN r.codepoint ELSE max_cp,
               is_ascii /\ r.codepoint <= 127, real_length + r.bytes)
    ELSE [max_cp |-> max_cp, is_ascii |-> is_ascii,
          real_length |-> real_length]

\* the first pass of alloc_str from byte i on
RECURSIVE FirstPass(_, _, _, _, _)
FirstPass(data, i, max_cp, is_ascii, real_length) ==
  IF i <= Len(data)
    THEN LET r == utf8_decode(data, i)
         IN  FirstPass(data, i + r.bytes,
                       IF r.codepoint > max_cp THEN r.codepoint ELSE max_cp,
                       is_ascii /\ r.codepoint <= 127, real_length + 1)
    ELSE [max_cp |-> max_cp, is_ascii |-> is_ascii,
          real_length |-> real_length]

\* the second pass, which converts every code point to a unit of the
\* storage: (char), (uint16_t) or uint32_t
RECURSIVE SecondPass(_, _, _)
SecondPass(data, i, unit) ==
  IF i <= Len(data)
    THEN LET r == utf8_decode(data, i)
         IN  <<r.codepoint % unit>> \o SecondPass(data, i + r.bytes, unit)
    ELSE <<>>

\* the number of values a unit of storage kind 0 and 1 holds; a uint32_t
\* unit holds every code point utf8_decode returns, all below 2^21
UnitRange(kind) ==
  IF kind = 0 THEN 256 ELSE IF kind = 1 THEN 65536 ELSE 2097152

\* alloc_str(runtime, data): the string object; hash is taken over the
\* input bytes, and the 8-bit payload is followed by its terminator
AllocStr(data) ==
  LET p == FirstPass(data, 1, 0, TRUE, 0)
      kind == IF p.max_cp <= 255 THEN 0 ELSE IF p.max_cp <= 65535 THEN 1
              ELSE 2
  IN  [type |-> OBJ_TYPE_STRING, refcount |-> 1, typename |-> "str",
       size |-> p.real_length,
       boolean |-> IF p.is_ascii THEN 1 ELSE 0,
       reserved |-> kind,
       hashed |-> data,
       data |-> SecondPass(data, 1, UnitRange(kind))
                  \o (IF kind = 0 THEN <<0>> ELSE <<>>)]

\* the C string that starts at buf[from]: the bytes before the first 0
RECURSIVE CString(_, _)
CString(buf, from) ==
  IF from > Len(buf) \/ buf[from] = 0 THEN <<>>
  ELSE <<buf[from]>> \o CString(buf, from + 1)

\* the loops of string_cstr_tmp for the 16-bit and the 32-bit storage
RECURSIVE EncodeUnits(_, _, _)
EncodeUnits(data, i, size) ==
  IF i <= size THEN utf8_encode(data[i]) \o EncodeUnits(data, i + 1, size)
  ELSE <<>>

\* string_cstr_tmp(s): the C string the caller reads
string_cstr_tmp(s) ==
  IF s.boolean = 1 /\ s.reserved = 0 THEN CString(s.data, 1)
  ELSE IF s.reserved = 0
    THEN CString(SubSeq(s.data, 1, s.size) \o <<0>>, 1)
  ELSE CString(EncodeUnits(s.data, 1, s.size) \o <<0>>, 1)

NoStr == [type |-> OBJ_TYPE_BASE]

\* the texts the generated code builds strings from
Texts == UNION {[1..n -> CodePoints] : n \in 0..MaxCodePoints}

StrStart(cps) ==
  [cps |-> cps, data |-> Utf8Bytes(cps), op |-> "", s |-> NoStr,
   out |-> <<>>]

NewString ==
  /\ fq.op = ""
  /\ fq' = [fq EXCEPT !.op = "alloc_str", !.s = AllocStr(fq.data)]
  /\ UNCHANGED <<dvars, hvars, kq, hmax, exited, pool, oom, aq,
                 symbol_table, symreg, ls>>

ToCString ==
  /\ fq.op = "alloc_str"
  /\ fq' = [fq EXCEPT !.op = "to_cstring", !.out = string_cstr_tmp(fq.s)]
  /\ UNCHANGED <<dvars, hvars, kq, hmax, exited, pool, oom, aq,
                 symbol_table, symreg, ls>>

StrNext == NewString \/ ToCString

(***************************************************************************)
(* NgCall.  The call of the native routine is a call out of NgCall: the    *)
(* state has the position of NgCall (before the call, inside the native,   *)
(* returned, exited), the refcounts of the function object, the positional *)
(* tuple and the keyword dict, and the events in the order they happened.  *)
(* A native may keep a reference to what it was passed.                    *)
(***************************************************************************)
CallFn == 1
CallArgs == 2
CallKwargs == 3
CallObjs == {CallFn, CallArgs, CallKwargs}

\* the largest refcount an object has when NgCall is entered
MaxHeldRefs == 2

Event(ev, a, k) == [ev |-> ev, a |-> a, k |-> k]

\* NgCall up to the call of the native: the two checks, and the call with
\* (runtime, args, kwargs)
NgCallEnter(S) ==
  IF S.func = NULL
    THEN [S EXCEPT !.pc = "exited",
                   !.err = "Runtime Error: Attempting to call NULL function"]
  ELSE IF S.native_ptr = NULL
    THEN [S EXCEPT !.pc = "exited",
                   !.err = "Runtime Error: Function has NULL native_ptr"]
  ELSE [S EXCEPT !.pc = "native",
                 !.log = Append(@, Event("native", S.args, S.kwargs))]

\* DECREF(runtime, o) on an argument of the call, noted in the log
CallDecref(S, o) ==
  IF o = NULL THEN S
  ELSE [DECREF(S, o) EXCEPT !.log = Append(@, Event("DECREF", o, NULL))]

\* an NgCall that also gives up a reference to the function object
NgCallReturn_DropFunc(S, result) ==
  LET S1 == [S EXCEPT !.log = Append(@, Event("returned", result, NULL))]
  IN  [CallDecref(CallDecref(CallDecref(S1, S.args), S.kwargs), S.func)
         EXCEPT !.pc = "returned", !.ret = result]

\* NgCall from the return of the native on: the two DECREFs and the return
\* of the result
NgCallReturn(S, result) ==
  LET S1 == [S EXCEPT !.log = Append(@, Event("returned", result, NULL))]
  IN  [CallDecref(CallDecref(S1, S.args), S.kwargs)
         EXCEPT !.pc = "returned", !.ret = result]

\* the state before NgCall(func, args, kwargs); the caller holds refs[o]
\* references to o
CallStart(func, native_ptr, args, kwargs, refs) ==
  [pc |-> "idle", func |-> func, native_ptr |-> native_ptr, args |-> args,
   kwargs |-> kwargs, rc |-> refs, rc0 |-> refs, kept |-> {}, freed |-> {},
   uaf |-> FALSE, log |-> <<>>, err |-> "", ret |-> NULL]

CallFrame ==
  UNCHANGED <<dvars, hvars, kq, hmax, exited, pool, oom, aq, symbol_table,
              symreg, ls>>

CallEnter ==
  /\ fq.pc = "idle"
  /\ fq' = NgCallEnter(fq)
  /\ CallFrame

\* the native stores one of its arguments and counts the reference
NativeKeeps(o) ==
  /\ fq.pc = "native"
  /\ o \in {fq.args, fq.kwargs} \ ({NULL} \cup fq.kept)
  /\ fq' = [INCREF(fq, o) EXCEPT !.kept = @ \cup {o}]
  /\ CallFrame

\* the native returns result, and NgCall runs to its end
NativeReturns(result) ==
  /\ fq.pc = "native"
  /\ fq' = NgCallReturn(fq, result)
  /\ CallFrame

CallNext ==
  \/ CallEnter
  \/ \E o \in {CallArgs, CallKwargs} : NativeKeeps(o)
  \/ \E result \in {NULL, CallArgs + CallKwargs} : NativeReturns(result)

(***************************************************************************)
(* NgLen.  The measured object is args->items[0]: a list, a tuple, a       *)
(* string built by alloc_str from a text, or an instance whose __dict__    *)
(* binds __len__ to a function object or does not.  The call of __len__    *)
(* goes through NgCall, so the state is that of a call, with the measured  *)
(* object and its __dict__ added.                                          *)
(***************************************************************************)
LenObj == CallKwargs + 1
LenObjs == CallObjs \cup {LenObj}

\* the texts of the measured strings
LenTexts == {<<>>, <<233>>, <<65, 128512>>, <<2048, 65, 255>>}

\* the items of the measured lists and tuples
LenItems == {<<>>, <<CallFn>>, <<CallFn, CallFn>>}

Sized(tag, elems, size) ==
  [tag |-> tag, elems |-> elems, size |-> size, dict |-> NoDict]

\* alloc_instance, with __len__ bound by NgSetMember or not
InstanceWith(bound) ==
  [tag |-> OBJ_TYPE_INSTANCE, elems |-> <<>>, size |-> 0,
   dict |-> IF bound
              THEN dict_set(alloc_dict, LenName, CallFn, {}, FALSE).d
            ELSE alloc_dict]

Measured ==
  {Sized(OBJ_TYPE_LIST, its, Len(its)) : its \in LenItems}
    \cup {Sized(OBJ_TYPE_TUPLE, its, Len(its)) : its \in LenItems}
    \cup {Sized(OBJ_TYPE_STRING, cps, AllocStr(Utf8Bytes(cps)).size) :
            cps \in LenTexts}
    \cup {InstanceWith(bound) : bound \in BOOLEAN}

HasSize == {OBJ_TYPE_LIST, OBJ_TYPE_TUPLE, OBJ_TYPE_STRING}

LenMissing ==
  "TypeError: len() missing 1 required positional argument: 'obj'"

LenNone == "TypeError: object of type '%s' has no len()"

\* NgLen up to its return or, for an object of another tag, up to the call
\* of the native routine of __len__ inside NgCall
NgLenEnter(S) ==
  IF S.args = NULL \/ S.argc < 1
    THEN [S EXCEPT !.pc = "exited", !.err = LenMissing]
  ELSE IF S.obj.tag \in HasSize
    THEN [DECREF(S, LenObj) EXCEPT !.pc = "returned",
                                   !.ret = IntObj(S.obj.size)]
  ELSE LET G == NgGetMember(S, "instance", LenName)
       IN  IF G.ret = NULL
             THEN [G EXCEPT !.pc = "exited",
                            !.err = LenNone]
           ELSE NgCallEnter([INCREF(G, S.args) EXCEPT !.func = G.ret,
                                                       !.ret = NULL])

\* NgLen from the return of the native routine on: the rest of NgCall,
\* DECREF(len_method), and the return of the result
NgLenReturn(S, result) ==
  [DECREF(NgCallReturn(S, result), S.func) EXCEPT !.ret = result]

\* the state before NgLen(args, kwargs); args->items[0] is obj, the native
\* routine of the bound function is native_ptr, and refs[o] references to
\* o are held
LenStart(obj, native_ptr, args, argc, kwargs, refs) ==
  [pc |-> "idle", func |-> NULL, native_ptr |-> native_ptr, args |-> args,
   kwargs |-> kwargs, rc |-> refs, rc0 |-> refs, kept |-> {}, freed |-> {},
   uaf |-> FALSE, log |-> <<>>, err |-> "", ret |-> NULL,
   obj |-> obj, argc |-> argc, dict |-> obj.dict]

LenEnter ==
  /\ fq.pc = "idle"
  /\ fq' = NgLenEnter(fq)
  /\ CallFrame

\* the native routine of __len__ returns result, and NgLen runs to its end
LenNativeReturns(result) ==
  /\ fq.pc = "native"
  /\ fq' = NgLenReturn(fq, result)
  /\ CallFrame

LenNext ==
  \/ LenEnter
  \/ \E o \in {CallArgs, CallKwargs} : NativeKeeps(o)
  \/ \E result \in {NULL, CallArgs + CallKwargs} : LenNativeReturns(result)

(***************************************************************************)
(* alloc(size) followed by del() with the pair alloc reported, for request *)
(* sizes at and next to every size-class boundary and beyond the largest.  *)
(***************************************************************************)
AllocSizes ==
  {1} \cup
  {block_sizes[i] + dlt : i \in 1..Len(block_sizes), dlt \in {-1, 0, 1}} \cup
  {2 * block_sizes[Len(block_sizes)]}

AllocIdle == [size |-> 0, done |-> TRUE, is_manual |-> 0, pool_id |-> 0,
              from |-> NoAlloc, to |-> NoAlloc]

AllocRest == aq = AllocIdle

AllocRequests ==
  \E size \in AllocSizes :
    aq = [AllocIdle EXCEPT !.size = size, !.done = FALSE]

AllocDel ==
  /\ ~aq.done
  /\ LET a == alloc(aq.size)
     IN  aq' = [aq EXCEPT !.done = TRUE, !.is_manual = a.is_manual,
                         !.pool_id = a.pool_id, !.from = a.from,
                         !.to = del(a.is_manual, a.pool_id)]
  /\ UNCHANGED <<dvars, hvars, kq, hmax, exited, pool, oom,
               symbol_table,
               symreg, ls, fq>>

AllocNext == AllocDel

\* no pair of keys is under comparison
KeyRest == kq = KeyIdle

\* the process runs and constructs up to MaxObjs values, and the system
\* allocator has refused nothing
HeapRest == hmax = MaxObjs /\ exited = NoExit /\ oom = NoRefusal

Init ==
  /\ DictInit /\ HeapInit /\ KeyRest /\ HeapRest /\ PoolRest /\ AllocRest
  /\ HmapRest /\ SymRest /\ ListRest /\ FnRest

KeyInit ==
  /\ DictInit /\ HeapInit /\ KeyPairs /\ HeapRest /\ PoolRest /\ AllocRest
  /\ HmapRest /\ SymRest /\ ListRest /\ FnRest

KeySpec == KeyInit /\ [][KeyNext]_vars

Spec == Init /\ [][DictNext]_vars

\* a dict whose keys are stored around the end of the table
RingInit ==
  /\ RingStart /\ HeapInit /\ KeyRest /\ HeapRest /\ PoolRest /\ AllocRest
  /\ HmapRest /\ SymRest /\ ListRest /\ FnRest

RingSpec == RingInit /\ [][RingNext]_vars

\* a process that sets and deletes keys of the dict, or of the symbol table
TablesNext ==
  \/ \E k \in Keys, v \in Vals, u \in BOOLEAN :
       symbol_table.nops = 0 /\ DictSet(k, v, u)
  \/ \E k \in Keys, u \in BOOLEAN : symbol_table.nops = 0 /\ DictDel(k, u)
  \/ \E key \in HKeys, value \in HVals : nops = 0 /\ HmapPut(key, value)
  \/ \E key \in HKeys : nops = 0 /\ HmapRemove(key)

TableSpec == Init /\ [][TablesNext]_vars

HeapSpec == Init /\ [][HeapNext]_vars

TupleInit ==
  /\ DictInit /\ HeapInit /\ KeyRest /\ PoolRest /\ AllocRest /\ HmapRest
  /\ SymRest /\ ListRest /\ FnRest
  /\ hmax = MaxTupleObjs /\ exited = NoExit /\ oom = NoRefusal

TupleSpec == TupleInit /\ [][TupleNext]_vars

OomSpec == Init /\ [][OomNext]_vars

\* dynamic_pool_create(block_size, blocks_per_page)
PoolInit ==
  /\ DictInit /\ HeapInit /\ KeyRest /\ HeapRest /\ AllocRest /\ HmapRest
  /\ SymRest /\ ListRest /\ FnRest
  /\ \E blocks_per_page \in 1..MaxBlocksPerPage :
       pool = dynamic_pool_create(blocks_per_page)

PoolSpec == PoolInit /\ [][PoolNext]_vars

AllocInit ==
  /\ DictInit /\ HeapInit /\ KeyRest /\ HeapRest /\ PoolRest /\ HmapRest
  /\ SymRest /\ ListRest /\ FnRest
  /\ AllocRequests

AllocSpec == AllocInit /\ [][AllocNext]_vars

HmapSpec == Init /\ [][HmapNext]_vars

\* init_runtime: the siphash key is read and the symbol table is created
SymInit ==
  /\ DictInit /\ HeapInit /\ KeyRest /\ HeapRest /\ PoolRest /\ AllocRest
  /\ HmapRest /\ ListRest /\ FnRest
  /\ \E sip \in [Names -> HKeys] : symreg = [NoSyms EXCEPT !.sip = sip]

SymSpec == SymInit /\ [][SymNext]_vars

\* the code holds the elements and the second list; no list is built yet
ListInit ==
  /\ DictInit /\ HeapInit /\ KeyRest /\ HeapRest /\ PoolRest /\ AllocRest
  /\ HmapRest /\ SymRest /\ FnRest
  /\ \E other \in OtherLists : ls = ListStart(other)

ListSpec == ListInit /\ [][ListNext]_vars

\* the generated code holds two operands
ArithInit ==
  /\ DictInit /\ HeapInit /\ KeyRest /\ HeapRest /\ PoolRest /\ AllocRest
  /\ HmapRest /\ SymRest /\ ListRest
  /\ \E a \in Operands, b \in Operands : fq = ArithStart(a, b)

ArithSpec == ArithInit /\ [][ArithNext]_vars

\* the generated code holds a UTF-8 literal
StrInit ==
  /\ DictInit /\ HeapInit /\ KeyRest /\ HeapRest /\ PoolRest /\ AllocRest
  /\ HmapRest /\ SymRest /\ ListRest
  /\ \E cps \in Texts : fq = StrStart(cps)

StrSpec == StrInit /\ [][StrNext]_vars

\* the generated code is about to call NgCall
CallInit ==
  /\ DictInit /\ HeapInit /\ KeyRest /\ HeapRest /\ PoolRest /\ AllocRest
  /\ HmapRest /\ SymRest /\ ListRest
  /\ \E func \in {NULL, CallFn}, native_ptr \in {NULL, 1},
        args \in {NULL, CallArgs}, kwargs \in {NULL, CallKwargs},
        refs \in [CallObjs -> 1..MaxHeldRefs] :
       fq = CallStart(func, native_ptr, args, kwargs, refs)

CallSpec == CallInit /\ [][CallNext]_vars

\* the generated code is about to call NgLen
LenInit ==
  /\ DictInit /\ HeapInit /\ KeyRest /\ HeapRest /\ PoolRest /\ AllocRest
  /\ HmapRest /\ SymRest /\ ListRest
  /\ \E obj \in Measured, native_ptr \in {NULL, 1},
        args \in {NULL, CallArgs}, argc \in {0, 1},
        kwargs \in {NULL, CallKwargs}, refs \in [LenObjs -> 1..MaxHeldRefs] :
       fq = LenStart(obj, native_ptr, args, argc, kwargs, refs)

LenSpec == LenInit /\ [][LenNext]_vars

(***************************************************************************)
(* Properties of the dict.                                                 *)
(***************************************************************************)
\* the pointers the dict stores (keys and values of occupied slots)
StoredKeys == {d.entries[i].key : i \in {j \in DOMAIN d.entries : d.entries[j].psl > 0}}
StoredVals == {d.entries[i].value : i \in {j \in DOMAIN d.entries : d.entries[j].psl > 0}}

\* the keys the generated code can pass: it holds a reference to a live object
Usable(k) == held[k] > 0 /\ k \notin freed

\* C1: the dict is the map amap: dict_get returns the value last set for an
\* equal key and not deleted since, NULL for every other key; count is the
\* number of distinct keys set and not deleted.
C1_DictIsMap ==
  d.live =>
    /\ \A k \in Keys : Usable(k) =>
         \A u \in BOOLEAN : dict_get(d, k, freed, u) = amap[ClassOf(k)]
    /\ d.count = Cardinality({c \in Keys : amap[c] # NULL})

\* the slots whose entry is the same key as k
StoredSlots(k) ==
  {i \in DOMAIN d.entries :
     /\ d.entries[i].psl > 0
     /\ d.entries[i].hash = hash(k)
     /\ KeysEqual(d.entries[i].key, k)}

\* rc with one reference less on each pointer of the sequence dec and one
\* more on each pointer of the sequence inc
RcAfter(dec, inc) ==
  [o \in Objs |->
     rc[o] - Cardinality({i \in DOMAIN dec : dec[i] = o})
           + Cardinality({i \in DOMAIN inc : inc[i] = o})]

\* C2: dict_del of a present key takes one reference from the deleted
\* entry's key and one from its value, and leaves every other refcount as
\* it was, whether or not following entries are shifted back.
C2_DelRefcounts ==
  [][\A k \in Keys, u \in BOOLEAN :
       (DictDel(k, u) /\ StoredSlots(k) # {}) =>
          LET i == CHOOSE j \in StoredSlots(k) : TRUE
          IN  rc' = RcAfter(<<d.entries[i].key, d.entries[i].value>>, <<>>)
    ]_dvars

\* C10: dict_set adds one reference to key and value when the key is not
\* present; when an equal key is present it moves one reference from the
\* old value to the new one, or changes nothing when the value is the same
\* pointer; the stored and the passed key keep their counts.
C10_SetRefcounts ==
  [][\A k \in Keys, v \in Vals, u \in BOOLEAN :
       DictSet(k, v, u) =>
          IF StoredSlots(k) = {}
            THEN rc' = RcAfter(<<>>, <<k, v>>)
            ELSE LET i == CHOOSE j \in StoredSlots(k) : TRUE
                 IN  IF d.entries[i].value # v
                       THEN rc' = RcAfter(<<d.entries[i].value>>, <<v>>)
                       ELSE rc' = rc
    ]_dvars

\* C4: every entries buffer is released to the allocator that produced it,
\* and the provenance the dict records is that of its current buffer.
C4_EntriesProvenance ==
  /\ \A r \in released : r.what = "entries" => r.to = r.from
  /\ d.live => del(d.is_manual, d.pool_id) = buf_src

Pow2(n) == \E e \in 1..16 : n = 2 ^ e

\* C8: capacity is a power of two >= 2, mask = capacity - 1, threshold =
\* floor(capacity * 85 / 100), count is the number of occupied slots and
\* count <= threshold.
C8_DictShape ==
  d.live =>
    /\ Pow2(d.capacity)
    /\ d.capacity >= 2
    /\ DOMAIN d.entries = 0..(d.capacity - 1)
    /\ d.mask = d.capacity - 1
    /\ d.threshold = (d.capacity * 85) \div 100
    /\ d.count = Occupied(d.entries)
    /\ d.count <= d.threshold
    /\ d.capacity * 85 >= d.count * 100

\* the dict after its second resize, holding four entries
C8_Witness == d.live /\ d.capacity = 8 /\ d.count = 4

\* the slot a probe from home slot h0 looks at in its step n (n = 0, 1, ..)
ProbeSlot(h0, n) == (h0 + n) % d.capacity

\* a probe from h0 for a key that matches no slot is still running after
\* step n: the slots of steps 0..n are occupied with psl >= probe distance
ProbePasses(h0, n) ==
  \A m \in 0..n : d.entries[ProbeSlot(h0, m)].psl >= m + 1

\* C9 as stated: from the home slot of any key, the PSLs of the slots a
\* probe passes never decrease from one probed slot to the next.
C9_PslNonDecreasing ==
  d.live =>
    \A h0 \in 0..d.mask : \A n \in 0..(d.capacity - 2) :
      (ProbePasses(h0, n) /\ ProbePasses(h0, n + 1)) =>
         d.entries[ProbeSlot(h0, n)].psl <= d.entries[ProbeSlot(h0, n + 1)].psl

\* C9 as amended: the probe from the home slot of a stored key reaches the
\* key's slot: every slot before it is occupied with psl >= probe distance.
C9_ProbeReachesKey ==
  d.live =>
    \A t \in DOMAIN d.entries : d.entries[t].psl > 0 =>
      LET h0 == HomeIdx(d.entries[t].hash, d.mask)
          n  == (t - h0) % d.capacity
      IN  n > 0 => ProbePasses(h0, n - 1)

\* a key stored two slots after its home slot, behind a longer-probed entry
C9_Witness ==
  /\ d.live
  /\ \E t \in DOMAIN d.entries :
       /\ d.entries[t].psl = 2
       /\ d.entries[(t - 1) % d.capacity].psl = 3

\* the psl of the slot of dd that stores the pointer key, 0 if none does
PslOf(dd, key) ==
  LET at == {i \in DOMAIN dd.entries :
               dd.entries[i].psl > 0 /\ dd.entries[i].key = key}
  IN  IF at = {} THEN 0 ELSE dd.entries[CHOOSE i \in at : TRUE].psl

\* three live keys with home slot s0 sit at s0, s0+1, s0+2 with psl 1, 2, 3
\* and k is the middle one
ThreeCollide(s0, k) ==
  LET e0 == d.entries[s0]
      e1 == d.entries[(s0 + 1) % d.capacity]
      e2 == d.entries[(s0 + 2) % d.capacity]
  IN  /\ d.live /\ d.capacity >= 4
      /\ e0.psl = 1 /\ e1.psl = 2 /\ e2.psl = 3
      /\ \A e \in {e0, e1, e2} : HomeIdx(e.hash, d.mask) = s0 /\ e.key \notin freed
      /\ e1.hash = hash(k) /\ KeysEqual(e1.key, k)

\* the two keys that remain are found by dict_get with their values
BothRetrievable(s0) ==
  LET e0 == d.entries[s0]
      e2 == d.entries[(s0 + 2) % d.capacity]
  IN  \A u2 \in BOOLEAN :
        /\ dict_get(d', e0.key, freed', u2) = e0.value
        /\ dict_get(d', e2.key, freed', u2) = e2.value

\* the same for those of the two keys the caller still holds
HeldRetrievable(s0) ==
  LET e0 == d.entries[s0]
      e2 == d.entries[(s0 + 2) % d.capacity]
  IN  \A e \in {e0, e2} : held[e.key] > 0 =>
        \A u2 \in BOOLEAN : dict_get(d', e.key, freed', u2) = e.value

Triples(dd) ==
  {[key |-> dd.entries[i].key, value |-> dd.entries[i].value,
    hash |-> dd.entries[i].hash] :
     i \in {j \in DOMAIN dd.entries : dd.entries[j].psl > 0}}

\* every entry has the psl of a probe that started with 1 at its home slot
PlacedFromHome(dd) ==
  \A i \in DOMAIN dd.entries : dd.entries[i].psl > 0 =>
    dd.entries[i].psl =
      1 + ((i - HomeIdx(dd.entries[i].hash, dd.mask)) % dd.capacity)

\* C12: the resize a dict_set runs when count >= threshold doubles the
\* capacity, keeps the set of (key, value, hash) entries and the count,
\* places every entry by a probe from psl 1 at hash & new mask, and changes
\* no refcount (seen in the calls that store nothing new after the resize).
C12_ResizeFrame ==
  [][((\E k \in Keys, v \in Vals, u \in BOOLEAN : DictSet(k, v, u))
        /\ d.count >= d.threshold) =>
       LET d1 == dict_resize(d, d.capacity * 2)
       IN  /\ d1.capacity = 2 * d.capacity
           /\ DOMAIN d1.entries = 0..(d1.capacity - 1)
           /\ Triples(d1) = Triples(d)
           /\ d1.count = d.count
           /\ Occupied(d1.entries) = Occupied(d.entries)
           /\ PlacedFromHome(d1)
           /\ d'.capacity = d1.capacity
           /\ Triples(d') = Triples(d) => (d' = d1 /\ rc' = rc /\ freed' = freed)
    ]_dvars

\* a dict of three entries resized from capacity 4 to 8 by a dict_set that
\* stored an equal key, so that the count stayed 3
C12_Witness ==
  /\ d.live /\ d.capacity = 8 /\ d.count = 3 /\ nops = MaxOps
  /\ lastdel = NoDel
  /\ \E i \in DOMAIN d.entries : d.entries[i].psl >= 2

\* what the statement says makes two objects the same key, with ints and
\* strings named and every other tag compared by pointer
SameKeyByPointer(k1, k2) ==
  /\ Attr(k1).tag = Attr(k2).tag
  /\ CASE Attr(k1).tag = OBJ_TYPE_INT    -> Attr(k1).value = Attr(k2).value
       [] Attr(k1).tag = OBJ_TYPE_STRING -> Attr(k1).hash = Attr(k2).hash
       [] OTHER                          -> k1 = k2

\* the same with floats compared by their double value
SameKeyFloatValue(k1, k2) ==
  /\ Attr(k1).tag = Attr(k2).tag
  /\ CASE Attr(k1).tag = OBJ_TYPE_INT    -> Attr(k1).value = Attr(k2).value
       [] Attr(k1).tag = OBJ_TYPE_FLOAT  ->
            /\ Attr(k1).value # NaN /\ Attr(k2).value # NaN
            /\ Attr(k1).value = Attr(k2).value
       [] Attr(k1).tag = OBJ_TYPE_STRING -> Attr(k1).hash = Attr(k2).hash
       [] OTHER                          -> k1 = k2

C3_TeardownOnce ==
  [][~huaf' =>
       \A o \in Addrs :
         /\ (~heap[o].made /\ heap'[o].made) =>
               (heap'[o].rc = 1 /\ heap'[o].torn = 0)
         /\ heap'[o].made =>
               /\ heap'[o].torn \in {0, 1}
               /\ heap'[o].torn = 0 <=> heap'[o].rc >= 1
         /\ heap'[o].torn # heap[o].torn =>
               (heap[o].made /\ heap[o].torn = 0 /\ heap[o].rc >= 1)
    ]_hvars

\* a tuple or list torn down together with the item it owned, after the
\* generated code had taken and dropped a second reference to some value
C3_Witness ==
  /\ ~huaf
  /\ \E o \in Addrs, k \in Addrs :
       /\ heap[o].tag \in {OBJ_TYPE_TUPLE, OBJ_TYPE_LIST}
       /\ heap[o].torn = 1 /\ heap[o].rc = 0
       /\ heap[o].kids[k] > 0
       /\ heap[k].torn = 1 /\ heap[k].rc = 0

\* C5: every items buffer of a list is released to the allocator that
\* produced it, on growth and at teardown.
C5_ItemsProvenance ==
  \A r \in hlog : r.what = "items" => r.to = r.from

\* C6: the block of every value is released to the allocator that produced
\* it at construction.
C6_BlockProvenance ==
  \A r \in hlog : r.what = "block" => r.to = r.from

\* C7: from construction to teardown no step changes is_manual or pool_id
\* of a value's header.
C7_HeaderWrittenOnce ==
  [][\A o \in Addrs :
       (heap[o].made /\ heap[o].torn = 0) =>
          /\ heap'[o].is_manual = heap[o].is_manual
          /\ heap'[o].pool_id = heap[o].pool_id
          /\ heap'[o].written = heap[o].written
    ]_hvars

(***************************************************************************)
(* Properties of tuples.                                                   *)
(***************************************************************************)
LiveTuples == {t \in Addrs : heap[t].made /\ heap[t].torn = 0
                             /\ heap[t].tag = OBJ_TYPE_TUPLE}

\* the slots of live tuples that hold x
RECURSIVE SlotsHolding(_, _)
SlotsHolding(x, T) ==
  IF T = {} THEN 0
  ELSE LET t == CHOOSE t \in T : TRUE
       IN  heap[t].kids[x] + SlotsHolding(x, T \ {t})

\* the refcount of every live value is the number of references to it: those
\* the generated code holds and one per tuple slot that holds it
RcIsRefs ==
  \A x \in Addrs : (heap[x].made /\ heap[x].torn = 0) =>
    heap[x].rc = hheld[x] + SlotsHolding(x, LiveTuples)

\* C14: a tuple operation that returns a tuple has incremented each element
\* once per slot of the new tuple; with the one decrement per slot of the
\* teardown every live value's refcount stays the number of references to
\* it and no released block is touched; a tuple that is not torn down keeps
\* its size and elements in every step; a teardown runs once; set_item on
\* a tuple ends the process and changes no value.
C14_TupleRefs ==
  [][/\ RcIsRefs' /\ ~huaf'
     /\ \A t \in LiveTuples :
          /\ heap'[t].torn <= 1
          /\ heap'[t].torn = 0 =>
               /\ heap'[t].size = heap[t].size
               /\ heap'[t].kids = heap[t].kids
     /\ \A t \in Addrs :
          (~heap[t].made /\ heap'[t].made /\ heap'[t].tag = OBJ_TYPE_TUPLE) =>
             \A x \in Addrs \ {t} :
               heap'[x].rc = heap[x].rc + heap'[t].kids[x]
     /\ (\E c \in Addrs, v \in Addrs : NgSetItemTuple(c, v)) =>
          (exited' # NoExit /\ heap' = heap)
    ]_vars

\* a tuple of two different elements, built by NgPrependTuple or NgCatTuple,
\* has been torn down and its elements live on with the references the
\* generated code holds; then a set_item on another tuple ended the process
C14_Witness ==
  /\ exited = "TypeError: 'tuple' object does not support item assignment"
  /\ \E t \in Addrs, x \in Addrs, y \in Addrs :
       /\ x # y
       /\ heap[t].made /\ heap[t].tag = OBJ_TYPE_TUPLE /\ heap[t].torn = 1
       /\ heap[t].kids[x] = 1 /\ heap[t].kids[y] = 1
       /\ heap[x].torn = 0 /\ heap[x].rc = hheld[x] + SlotsHolding(x, LiveTuples)
       /\ heap[y].torn = 0 /\ heap[y].rc = hheld[y]
       /\ LiveTuples # {}

(***************************************************************************)
(* Properties of the dynamic pool.                                         *)
(***************************************************************************)
\* the pages reached from head along next, at most n of them
RECURSIVE PageWalk(_, _, _)
PageWalk(P, head, n) ==
  IF head = NULL \/ n = 0 THEN <<>>
  ELSE <<head>> \o PageWalk(P, P.pages[head].next, n - 1)

PartialList(P) == PageWalk(P, P.partial_pages, MaxPages + 1)
FullList(P) == PageWalk(P, P.full_pages, MaxPages + 1)

OnList(l, page) == \E i \in DOMAIN l : l[i] = page

\* head has no prev, and each page is the prev of its next
LinksConsistent(P, l) ==
  /\ l # <<>> => P.pages[l[1]].prev = NULL
  /\ \A i \in DOMAIN l :
       /\ P.pages[l[i]].live
       /\ i < Len(l) => P.pages[l[i + 1]].prev = l[i]
       /\ i = Len(l) => P.pages[l[i]].next = NULL

LivePages(P) == {a \in PageAddrs : P.pages[a].live}

\* C15: every page of the pool is on exactly one of the two lists, once;
\* it is on the partial list exactly when it has a free block and on the
\* full list exactly when it has none; the prev and next links of each list
\* agree with each other and with the list head.
C15_PoolLists ==
  /\ Len(PartialList(pool)) + Len(FullList(pool))
       = Cardinality(LivePages(pool))
  /\ LinksConsistent(pool, PartialList(pool))
  /\ LinksConsistent(pool, FullList(pool))
  /\ \A a \in LivePages(pool) :
       /\ OnList(PartialList(pool), a) # OnList(FullList(pool), a)
       /\ OnList(PartialList(pool), a) <=> pool.pages[a].free # <<>>
       /\ OnList(FullList(pool), a) <=> pool.pages[a].free = <<>>
       /\ pool.pages[a].used_count + Len(pool.pages[a].free)
            = pool.blocks_per_page
       /\ pool.pages[a].used_count
            = Cardinality({b \in pool.out : b[1] = a})

\* a pool of several blocks per page with a full page and a partial page,
\* the partial one having been full before (its free list is out of order)
C15_Witness ==
  /\ pool.blocks_per_page = MaxBlocksPerPage
  /\ pool.full_pages # NULL /\ pool.partial_pages # NULL
  /\ \E a \in LivePages(pool) :
       /\ Len(pool.pages[a].free) = 2
       /\ pool.pages[a].free[1] > pool.pages[a].free[2]
  /\ Cardinality(LivePages(pool)) = MaxPages
  /\ pool.last = "free"

\* C16: a free of the last block in use of a page releases the page and
\* takes it off the lists; no page with used_count 0 exists; a pool whose
\* blocks have all been freed has no pages and two empty lists.
C16_ShrinkOnEmpty ==
  [][\A ptr \in pool.out :
       PoolFree(ptr) =>
         /\ pool.pages[ptr[1]].used_count = 1 =>
              /\ ~pool'.pages[ptr[1]].live
              /\ ~OnList(PartialList(pool'), ptr[1])
              /\ ~OnList(FullList(pool'), ptr[1])
              /\ LivePages(pool') = LivePages(pool) \ {ptr[1]}
         /\ pool.pages[ptr[1]].used_count > 1 =>
              LivePages(pool') = LivePages(pool)
         /\ \A a \in LivePages(pool') : pool'.pages[a].used_count > 0
         /\ pool'.out = {} =>
              /\ LivePages(pool') = {}
              /\ pool'.partial_pages = NULL /\ pool'.full_pages = NULL
    ]_vars

\* a pool with one block per page whose last block in use has just been
\* freed, and its page with it
C16_Witness ==
  /\ pool.blocks_per_page = 1
  /\ pool.last = "shrink"
  /\ pool.out = {}
  /\ LivePages(pool) = {}

(***************************************************************************)
(* Properties of allocation failure.                                       *)
(***************************************************************************)
\* C17: once the system allocator has refused a request, the operation that
\* made it has not returned and the process has ended with a message of
\* the program.
C17_RefusalAborts ==
  oom.refused =>
    /\ ~oom.returned
    /\ exited # NoExit /\ exited # KilledBySignal

(***************************************************************************)
(* Properties of alloc and del.                                            *)
(***************************************************************************)
\* C18: a request of at most the largest payload is served by the size
\* class of the smallest index whose payload is at least the size, with
\* is_manual = 0 and that index as pool_id; a larger request is served by
\* the system allocator with is_manual = 1; del with the reported pair
\* sends the block back to where it came from.
C18_AllocRoutes ==
  aq.done /\ aq.size > 0 =>
    /\ aq.size <= block_sizes[Len(block_sizes)] =>
         /\ aq.is_manual = 0
         /\ aq.pool_id \in 0..(Len(block_sizes) - 1)
         /\ block_sizes[aq.pool_id + 1] >= aq.size
         /\ \A i \in 0..(aq.pool_id - 1) : block_sizes[i + 1] < aq.size
         /\ aq.from = SizeClass(aq.pool_id)
    /\ aq.size > block_sizes[Len(block_sizes)] =>
         /\ aq.is_manual = 1
         /\ aq.from = SysAlloc
    /\ aq.to = aq.from

\* a request one byte above a class boundary went to the next class and
\* came back to it
C18_Witness ==
  /\ aq.done
  /\ aq.size = block_sizes[16] + 1
  /\ aq.pool_id = 16 /\ aq.is_manual = 0
  /\ aq.to = SizeClass(16)

(***************************************************************************)
(* Properties of the symbol table.                                         *)
(***************************************************************************)
\* hmap_get agrees with the map the table stands for, on every key
HmapIsMap(st) == \A k \in HKeys : hmap_get(st.map, k) = st.ref[k]

\* C19: after every hmap_put and hmap_remove, hmap_get of each key gives
\* the pointer put last for it, or NULL when it was never put or was
\* removed since; hmap_remove returns true exactly when the key was
\* present, and a remove that misses leaves the table as it was; this
\* includes key 0.
C19_HmapIsMap ==
  [][/\ HmapIsMap(symbol_table) /\ HmapIsMap(symbol_table')
     /\ \A k \in HKeys :
          HmapRemove(k) =>
            /\ symbol_table'.last.ret = (symbol_table.ref[k] # NULL)
            /\ symbol_table.ref[k] = NULL =>
                 symbol_table'.map = symbol_table.map
    ]_vars

\* in a table that has been resized, key 0 sits behind other keys of its
\* home slot (psl >= 2) after a removal that found its key, and hmap_get
\* finds the pointer put for it
C19_Witness ==
  /\ symbol_table.map.capacity >= 4
  /\ symbol_table.ref[0] # NULL
  /\ hmap_get(symbol_table.map, 0) = symbol_table.ref[0]
  /\ \E i \in DOMAIN symbol_table.map.entries :
       /\ symbol_table.map.entries[i].psl >= 2
       /\ symbol_table.map.entries[i].key = 0
  /\ symbol_table.last.op = "remove" /\ symbol_table.last.ret

HmapShape(map) ==
  /\ \E n \in 1..MaxMapOps + 1 : map.capacity = 2^n
  /\ DOMAIN map.entries = 0..(map.capacity - 1)
  /\ map.mask = map.capacity - 1
  /\ map.threshold = (map.capacity * 85) \div 100
  /\ map.count = Cardinality({i \in DOMAIN map.entries :
                                map.entries[i].psl >= 1})
  /\ map.count <= map.threshold
  /\ \A i \in DOMAIN map.entries :
       map.entries[i].psl >= 1 =>
         map.entries[i].psl =
           1 + ((i - HmapHome(map.entries[i].key, map.mask)) % map.capacity)

\* the slots from i up to, not including, e, going round the table
CyclicRange(i, e, capacity) ==
  {j \in 0..(capacity - 1) : (j - i) % capacity < (e - i) % capacity}

\* what a removal of the key at slot i does to the entries es: the entries
\* after it move one slot back, each with its psl decremented, up to the
\* first slot e whose follower has psl <= 1; e becomes empty and is the
\* only slot that does; the rest stays
ShiftedFrom(es, es2, i, capacity) ==
  \E e \in 0..(capacity - 1) :
    /\ es[(e + 1) % capacity].psl <= 1
    /\ \A j \in CyclicRange(i, e, capacity) :
         /\ es[(j + 1) % capacity].psl >= 2
         /\ es2[j] = [es[(j + 1) % capacity] EXCEPT !.psl = @ - 1]
    /\ es2[e].psl = 0
    /\ \A j \in 0..(capacity - 1) \ (CyclicRange(i, e, capacity) \cup {e}) :
         es2[j] = es[j]
    /\ {j \in 0..(capacity - 1) : es[j].psl >= 1 /\ es2[j].psl = 0} = {e}

\* C20: before and after every call the capacity is a power of two, mask
\* and threshold follow from it, count is the number of occupied slots and
\* at most the threshold, and every occupied slot's psl is 1 plus its
\* cyclic distance from the home slot of its key; the table starts with
\* capacity 2 and a call keeps the capacity or doubles it; a removal that
\* finds its key shifts the following entries back up to the first slot
\* whose follower has psl <= 1 and empties exactly that slot.
C20_HmapShape ==
  [][/\ HmapShape(symbol_table.map) /\ HmapShape(symbol_table'.map)
     /\ symbol_table.nops = 0 => symbol_table.map.capacity = 2
     /\ \/ symbol_table'.map.capacity = symbol_table.map.capacity
        \/ symbol_table'.map.capacity = 2 * symbol_table.map.capacity
     /\ \A k \in HKeys :
          (HmapRemove(k) /\ symbol_table'.last.ret) =>
             \E i \in DOMAIN symbol_table.map.entries :
               /\ symbol_table.map.entries[i].psl >= 1
               /\ symbol_table.map.entries[i].key = k
               /\ ShiftedFrom(symbol_table.map.entries,
                              symbol_table'.map.entries, i,
                              symbol_table.map.capacity)
    ]_vars

\* a removal from a table of capacity 8 has just shifted an entry back: the
\* slot after the home slot of the removed key is newly empty and follows
\* an occupied slot
C20_Witness ==
  /\ symbol_table.last.op = "remove" /\ symbol_table.last.ret
  /\ symbol_table.map.capacity = 8
  /\ symbol_table.map.count = 3
  /\ LET h == HmapHome(symbol_table.last.key, symbol_table.map.mask)
     IN  /\ symbol_table.map.entries[h].psl = 1
         /\ symbol_table.map.entries[(h + 1) % 8].psl = 2
         /\ symbol_table.map.entries[(h + 2) % 8].psl = 0

(***************************************************************************)
(* Properties of get_symbol_id.                                            *)
(***************************************************************************)
StoredNames(map) ==
  {map.entries[i].key : i \in {j \in DOMAIN map.entries : map.entries[j].psl >= 1}}

Registered == {p[1] : p \in symreg.returned}

\* C21: a name gets the same ID from every call; a call for a name that was
\* given an ID before leaves the count and the keys of the table as they
\* were; the table has one entry for each distinct hash of the names
\* registered and no other.
C21_SymbolIdsStable ==
  [][/\ \A p \in symreg'.returned, q \in symreg'.returned :
          p[1] = q[1] => p[2] = q[2]
     /\ \A name \in Registered :
          GetSymbolId(name) =>
            /\ symbol_table'.map.count = symbol_table.map.count
            /\ StoredNames(symbol_table'.map) = StoredNames(symbol_table.map)
     /\ symbol_table'.map.count
          = Cardinality({symreg.sip[n] : n \in {p[1] : p \in symreg'.returned}})
     /\ StoredNames(symbol_table'.map)
          = {symreg.sip[n] : n \in {p[1] : p \in symreg'.returned}}
    ]_vars

\* three names with three different hashes are registered, the table has
\* been resized, and two of the five calls were repeated ones
C21_Witness ==
  /\ Registered = Names
  /\ symbol_table.map.count = 3
  /\ symbol_table.map.capacity >= 4
  /\ symbol_table.nops = MaxMapOps
  /\ Cardinality(symreg.returned) = 3

(***************************************************************************)
(* Properties of the list operations.                                      *)
(***************************************************************************)
Constructors == {"alloc_list", "alloc_list_empty", "alloc_list_prefill"}

\* a constructor has returned the list and the list has not been released
ListReturned ==
  /\ ls.made /\ ls.refcount > 0
  /\ ~(ls.last.op \in Constructors /\ ls.err # "")

\* C22: a list that a constructor returned has, after any calls of append,
\* extend, pop, remove, clear and set_item (granted or refused memory),
\* size <= capacity, capacity >= 1 and a non-null items pointer.
C22_ListShape ==
  ListReturned =>
    /\ ls.size <= ls.capacity
    /\ ls.capacity >= 1
    /\ ls.buf # NULL
    /\ DOMAIN ls.items = 0..(ls.capacity - 1)

\* a list whose buffer was replaced twice is cleared, and one whose append
\* was refused memory is still full
C22_Witness ==
  /\ ListReturned
  /\ \/ ls.last.op = "clear" /\ ls.bufs >= 3 /\ ls.capacity >= 4
     \/ /\ ls.last.op = "append" /\ ls.size = ls.capacity
        /\ ls.rc[ls.last.a] > 1 + CountIn(ls.other, ls.last.a)
                                + CountIn(Slots(ls), ls.last.a)
        /\ ls.nops = MaxSeqOps

\* C23: on a list a constructor has just returned, get_member with each of
\* the six names returns the function object allocated for that name, and
\* calling the function returned for "append" with (l, x) on the empty
\* list makes the size 1 and get_item(l, 0) return x.
C23_MethodsBound ==
  [][/\ \A i \in 1..Len(Methods) :
          (ls.last.op \in Constructors /\ GetMember(i)) =>
            /\ ls'.err = ""
            /\ ls'.ret = FnObj(i)
            /\ FnObj(i) \in ls'.fns
            /\ ls'.rc[FnObj(i)] > 0
     /\ \A x \in Elems, ok \in BOOLEAN :
          (ls.size = 0 /\ CallAppend(x, ok)) =>
            /\ ls'.err = ""
            /\ ls'.size = 1
            /\ NgGetItem(ls', Container(ls', "list"), 0).ret = x
            /\ NgGetItem(ls', Container(ls', "list"), 0).err = ""
    ]_vars

\* alloc_list, get_member(l, "append") and the call of what it returned
C23_Witness ==
  /\ ls.last.op = "call" /\ ls.nops = 3
  /\ ls.bufs = 1 /\ ls.capacity = 1
  /\ ls.size = 1 /\ ls.items[0] = ls.last.a
  /\ ls.err = ""

\* C24: when a constructor has returned the list, each of the six function
\* objects has refcount 1 (the reference of the __dict__); when the list
\* has been released, the __dict__, its entries and the six function
\* objects are released too.
C24_MethodsOwned ==
  /\ (ls.last.op \in Constructors /\ ls.err = "") =>
       \A i \in 1..Len(Methods) : ls.rc[FnObj(i)] = 1
  /\ (ls.made /\ ls.refcount = 0) =>
       /\ ls.live \cap {"__dict__", "entries"} = {}
       /\ ls.fns = {}

\* the sequence its without its k-th item
RemoveAt(its, k) ==
  [j \in 1..(Len(its) - 1) |-> IF j < k THEN its[j] ELSE its[j + 1]]

\* the positions of the sequence its that hold x
Positions(its, x) == {k \in 1..Len(its) : its[k] = x}

FirstOf(its, x) ==
  CHOOSE k \in Positions(its, x) : \A j \in Positions(its, x) : k <= j

\* the call left the list, the refcounts and the released objects alone
\* and ended the process with the error e
AbortsWith(e) ==
  /\ ls'.err = e
  /\ Slots(ls') = Slots(ls) /\ ls'.capacity = ls.capacity
  /\ ls'.rc = ls.rc /\ ls'.freed = ls.freed

\* C25: pop() on a list of size > 0 returns the item of the last slot and
\* pop(i) with 0 <= i < size the item of slot i; the items left are the
\* other items in their order, and no refcount changes.  pop() on an empty
\* list and pop(i) with i < 0 or i >= size end with an IndexError.
C25_Pop ==
  [][/\ ListPop =>
          IF ls.size > 0
            THEN /\ ls'.err = ""
                 /\ ls'.ret = Slots(ls)[ls.size]
                 /\ Slots(ls') = RemoveAt(Slots(ls), ls.size)
                 /\ ls'.size = ls.size - 1
                 /\ ls'.rc = ls.rc /\ ls'.freed = ls.freed
          ELSE AbortsWith("IndexError")
     /\ \A idx \in Indexes :
          ListPopAt(idx) =>
            IF 0 <= idx /\ idx < ls.size
              THEN /\ ls'.err = ""
                   /\ ls'.ret = Slots(ls)[idx + 1]
                   /\ Slots(ls') = RemoveAt(Slots(ls), idx + 1)
                   /\ ls'.size = ls.size - 1
                   /\ ls'.rc = ls.rc /\ ls'.freed = ls.freed
            ELSE AbortsWith("IndexError")
    ]_vars

\* pop(0) on the list [2, 1, 2] returned 2 and left [1, 2]
C25_Witness ==
  /\ ls.last.op = "pop" /\ ls.last.a = 2 /\ ls.last.b = 0
  /\ ls.err = "" /\ ls.ret = 2
  /\ Slots(ls) = <<1, 2>>

\* C26: index(x) returns the first slot that holds the pointer x; remove(x)
\* takes the item out of that slot, keeps the other items in their order
\* and decrements the refcount of x by one, that of no other object; with
\* no slot holding x both end with a ValueError.
C26_IndexRemove ==
  [][\A x \in Elems :
       /\ ListIndex(x) =>
            IF Positions(Slots(ls), x) # {}
              THEN /\ ls'.err = ""
                   /\ ls'.ret = FirstOf(Slots(ls), x) - 1
                   /\ Slots(ls') = Slots(ls)
                   /\ ls'.rc = ls.rc /\ ls'.freed = ls.freed
            ELSE AbortsWith("ValueError")
       /\ ListRemove(x) =>
            IF Positions(Slots(ls), x) # {}
              THEN /\ ls'.err = ""
                   /\ Slots(ls') = RemoveAt(Slots(ls), FirstOf(Slots(ls), x))
                   /\ ls'.size = ls.size - 1
                   /\ ls'.rc = [ls.rc EXCEPT ![x] = @ - 1]
            ELSE AbortsWith("ValueError")
    ]_vars

\* remove(2) on the list [1, 2, 1, 2], the list [1, 2] extended with
\* itself, left [1, 1, 2]
C26_Witness ==
  /\ ls.last.op = "remove" /\ ls.last.a = 2
  /\ ls.err = ""
  /\ Slots(ls) = <<1, 1, 2>>

\* the stored keys of a dict that compare equal to key
StoredAs(dd, key) ==
  {i \in DOMAIN dd.entries :
     dd.entries[i].psl > 0 /\ KeysEqual(dd.entries[i].key, key)}

\* get_item on a sequence of n items with the index given: the item at the
\* index, for a negative index at index + n, or an IndexError when that is
\* not in 0..n-1
ItemRead(its, index) ==
  LET at == IF index < 0 THEN index + Len(its) ELSE index
  IN  IF 0 <= at /\ at < Len(its)
        THEN ls'.err = "" /\ ls'.ret = its[at + 1] /\ Slots(ls') = Slots(ls)
             /\ ls'.rc = ls.rc /\ ls'.freed = ls.freed
      ELSE AbortsWith("IndexError")

IntOperands == fq.a.tag = OBJ_TYPE_INT /\ fq.b.tag = OBJ_TYPE_INT

\* q is the quotient a / b rounded toward minus infinity
IsFloor(q, a, b) ==
  IF b > 0 THEN q * b <= a /\ a < (q + 1) * b
  ELSE q * b >= a /\ a > (q + 1) * b

\* C28: for int operands a and b with b # 0, floor_div and mod return ints
\* with floor_div(a,b) * b + mod(a,b) = a, mod(a,b) zero or of the sign of
\* b, and floor_div(a,b) the quotient rounded toward minus infinity; the
\* call made returned the value these hold for.
C28_FloorDivMod ==
  (IntOperands /\ fq.b.value # 0 /\ fq.op \in {"floor_div", "mod"}) =>
    LET a == fq.a.value
        b == fq.b.value
        q == NgFloorDiv(fq.a, fq.b)
        m == NgMod(fq.a, fq.b)
    IN  /\ q.err = "" /\ m.err = ""
        /\ q.ret.tag = OBJ_TYPE_INT /\ m.ret.tag = OBJ_TYPE_INT
        /\ fq.out = (IF fq.op = "mod" THEN m ELSE q)
        /\ q.ret.value * b + m.ret.value = a
        /\ m.ret.value = 0 \/ ((m.ret.value < 0) = (b < 0))
        /\ IsFloor(q.ret.value, a, b)
        /\ (Abs(a) = 7 /\ Abs(b) = 2) =>
             q.ret.value = (IF (a < 0) = (b < 0) THEN 3 ELSE 0 - 4)

\* floor_div(-7, 2) returned -4
C28_Witness ==
  /\ fq.op = "floor_div" /\ fq.a = IntObj(0 - 7) /\ fq.b = IntObj(2)
  /\ fq.out = Returns(IntObj(0 - 4))

\* b multiplied e times into p, modulo 2^64 (the words are of equal length)
RECURSIVE RepeatedProduct(_, _, _)
RepeatedProduct(p, bw, e) ==
  IF e > 0 /\ Len(p) = Len(bw) THEN RepeatedProduct(Mul64(p, bw), bw, e - 1)
  ELSE p

\* the number of binary digits of e
RECURSIVE BitLen(_)
BitLen(e) == IF e = 0 THEN 0 ELSE 1 + BitLen(e \div 2)

\* the exponents up to which the product is formed factor by factor
SmallExp == 8

\* C29: pow on two ints with exponent e >= 0 returns an int after one loop
\* iteration for every binary digit of e: 1 for e = 0, the product of e
\* factors b modulo 2^64 for e up to 8, and for every e > 0 the int
\* returned for e - 1 times b modulo 2^64; it is 1024 for 2 and 10, and 0
\* for an even base and e >= 64.  pow on two ints with e < 0, and on
\* numeric operands one of which is a float, returns a float.
C29_Pow ==
  (fq.op = "pow" /\ Numeric(fq.a) /\ Numeric(fq.b)) =>
    LET b == fq.a.value
        e == fq.b.value
        r == fq.out.ret
    IN  /\ fq.out.err = ""
        /\ (IntOperands /\ e >= 0) =>
             /\ r.tag = OBJ_TYPE_INT
             /\ r.squarings = BitLen(e)
             /\ e = 0 => r.word = Int64Word(1)
             /\ (b = 2 /\ e = 10) => r.word = Int64Word(1024)
             /\ e <= SmallExp =>
                  r.word = RepeatedProduct(Int64Word(1), Int64Word(b), e)
             /\ e > 0 =>
                  LET less == NgPow(fq.a, IntObj(e - 1))
                  IN  /\ less.err = ""
                      /\ r.word = Mul64(less.ret.word, Int64Word(b))
             /\ (e >= 64 /\ b % 2 = 0) => r.word = Int64Word(0)
        /\ (IntOperands /\ e < 0) => r.tag = OBJ_TYPE_FLOAT
        /\ ~IntOperands => r.tag = OBJ_TYPE_FLOAT

\* pow(2, 63) returned the int with only the sign bit set, and pow(3, 41)
\* an int that is 3^41 reduced modulo 2^64
C29_Witness ==
  /\ fq.op = "pow" /\ IntOperands
  /\ \/ /\ fq.a.value = 2 /\ fq.b.value = 63
        /\ fq.out.ret.word = <<0, 0, 0, 0, 0, 0, 0, 128>>
     \/ /\ fq.a.value = 3 /\ fq.b.value = 41
        /\ fq.out.ret.word = <<99, 184, 95, 123, 246, 28, 42, 250>>

\* C30: for every string built by alloc_str from the well-formed UTF-8
\* bytes b of code points of the 1-, 2-, 3- and 4-byte ranges, to_cstring
\* yields exactly the bytes b.
C30_RoundTrip ==
  fq.op = "to_cstring" => fq.out = fq.data

\* what to_cstring yields: the bytes b unless the string has 1-byte storage
\* and a code point above 0x7F, and then one byte per code point, the code
\* point itself
ToCStringYields ==
  fq.op = "to_cstring" =>
    IF fq.s.reserved = 0 /\ fq.s.boolean = 0 THEN fq.out = fq.cps
    ELSE fq.out = fq.data

\* "e acute" (C3 A9) came back from to_cstring as the single byte E9
Latin1Returned ==
  /\ fq.op = "to_cstring"
  /\ fq.data = <<195, 169>>
  /\ fq.out = <<233>>

\* the largest code point of a text, 0 for the empty text
RECURSIVE MaxCodePoint(_)
MaxCodePoint(cps) ==
  IF cps = <<>> THEN 0
  ELSE LET m == MaxCodePoint(Tail(cps))
       IN  IF Head(cps) > m THEN Head(cps) ELSE m

\* C31: a string built by alloc_str from well-formed UTF-8 has for size the
\* number of code points, storage kind 0 iff the largest code point is at
\* most 0xFF, kind 1 iff it lies in 0x100..0xFFFF and kind 2 otherwise, and
\* the ASCII flag set iff every code point is at most 0x7F.
C31_StringShape ==
  fq.op \in {"alloc_str", "to_cstring"} =>
    LET m == MaxCodePoint(fq.cps)
    IN  /\ fq.s.size = Len(fq.cps)
        /\ fq.s.reserved \in {0, 1, 2}
        /\ fq.s.reserved = 0 <=> m <= 255
        /\ fq.s.reserved = 1 <=> (m >= 256 /\ m <= 65535)
        /\ fq.s.reserved = 2 <=> m > 65535
        /\ fq.s.boolean = 1 <=> \A i \in DOMAIN fq.cps : fq.cps[i] <= 127
        /\ fq.s.boolean \in {0, 1}

\* alloc_str returned a string of two code points in five bytes, stored in
\* 16-bit units, and one of two code points in six bytes, stored in 32-bit
\* units
C31_Witness ==
  /\ fq.op = "alloc_str"
  /\ \/ /\ fq.cps = <<233, 28450>> /\ Len(fq.data) = 5
        /\ fq.s.size = 2 /\ fq.s.reserved = 1 /\ fq.s.boolean = 0
     \/ /\ fq.cps = <<128512, 255>> /\ Len(fq.data) = 6
        /\ fq.s.size = 2 /\ fq.s.reserved = 2 /\ fq.s.boolean = 0

\* the values the __dict__ of the list holds under a key equal to name
BoundTo(name) ==
  IF ls.dict = NoDict THEN {}
  ELSE {ls.dict.entries[j].value :
          j \in {k \in DOMAIN ls.dict.entries :
                   /\ ls.dict.entries[k].psl > 0
                   /\ Attr(ls.dict.entries[k].key).hash = Attr(name).hash}}

\* the step is a get_member that found v and did nothing but return it and
\* count one more reference to it
FoundStep(v) ==
  /\ ls'.ret = v
  /\ ls'.rc = [ls.rc EXCEPT ![v] = @ + 1]
  /\ ls' = [ls EXCEPT !.ret = v, !.rc = ls'.rc, !.last = ls'.last,
                      !.nops = ls'.nops]

\* the step is a get_member that returned null and changed nothing
AbsentStep ==
  /\ ls'.ret = NULL
  /\ ls' = [ls EXCEPT !.ret = NULL, !.last = ls'.last, !.nops = ls'.nops]

\* C32: get_member that finds the member returns the value the attribute
\* dict holds, increments the refcount of that value by exactly 1 and
\* changes nothing else (slots, count and capacity of the dict included);
\* repeated directly it returns the same pointer; on an object without an
\* attribute dict, or for an absent name, it returns null and changes
\* nothing.
C32_GetMember ==
  [][/\ \A i \in 1..Len(Methods) :
          GetMember(i) =>
            /\ BoundTo(NameObj(i)) # {} => \E v \in BoundTo(NameObj(i)) :
                                             FoundStep(v)
            /\ BoundTo(NameObj(i)) = {} => AbsentStep
            /\ (ls.last.op = "get_member" /\ ls.last.on = "list"
                  /\ ls.last.a = i) => ls'.ret = ls.ret
            /\ ls'.dict = ls.dict
     /\ GetMemberAbsent => (BoundTo(AbsentName) = {} /\ AbsentStep)
     /\ \A i \in 1..Len(Methods) : GetMemberOfStr(i) => AbsentStep
    ]_vars

\* the second of two get_member(l, "append") in a row returned the same
\* function object, which is counted twice more than the constructor left
\* it; and a get_member for the absent name returned null while the dict
\* holds six members
C32_Witness ==
  \/ /\ ls.last.op = "get_member" /\ ls.last.on = "list" /\ ls.last.a = 1
     /\ ls.nops = 3 /\ ls.ret = FnObj(1)
     /\ ls.rc[FnObj(1)] = 4
  \/ /\ ls.last.op = "get_member" /\ ls.last.a = Len(Methods) + 1
     /\ ls.ret = NULL /\ ls.dict.count = Len(Methods)

\* the events of a completed call, in their order
EventsOfCall ==
  <<Event("native", fq.args, fq.kwargs), Event("returned", fq.ret, NULL)>>
    \o (IF fq.args = NULL THEN <<>>
        ELSE <<Event("DECREF", fq.args, NULL)>>)
    \o (IF fq.kwargs = NULL THEN <<>>
        ELSE <<Event("DECREF", fq.kwargs, NULL)>>)

\* the references to o at this moment: those held at the call, and the one
\* the native kept
RefsNow(o) == fq.rc0[o] + (IF o \in fq.kept THEN 1 ELSE 0)

\* C33: NgCall calls the native with (runtime, args, kwargs); until the
\* native has returned nothing is decremented; after it has returned the
\* tuple and the dict are decremented exactly once each, a null one is
\* skipped; the refcount of the function object never changes; a null
\* function or a null native pointer exits before any call or decrement.
C33_Call ==
  /\ fq.pc = "idle" => (fq.log = <<>> /\ fq.rc = fq.rc0)
  /\ fq.pc = "native" =>
       /\ fq.log = <<Event("native", fq.args, fq.kwargs)>>
       /\ \A o \in CallObjs : fq.rc[o] = RefsNow(o)
       /\ fq.freed = {}
  /\ fq.pc = "returned" =>
       /\ fq.log = EventsOfCall
       /\ fq.func # NULL /\ fq.native_ptr # NULL
       /\ fq.rc[CallFn] = fq.rc0[CallFn]
       /\ \A o \in {CallArgs, CallKwargs} :
            fq.rc[o] = IF o \in {fq.args, fq.kwargs} THEN RefsNow(o) - 1
                       ELSE fq.rc0[o]
       /\ fq.freed =
            {o \in {fq.args, fq.kwargs} \ {NULL} : RefsNow(o) = 1}
       /\ ~fq.uaf /\ fq.err = ""
  /\ fq.pc = "exited" =>
       /\ fq.func = NULL \/ fq.native_ptr = NULL
       /\ fq.log = <<>> /\ fq.rc = fq.rc0 /\ fq.freed = {}
       /\ fq.err # ""

\* a call with a tuple and a dict returned: the tuple, which the native
\* kept, is counted as before, the dict once less, the function as before;
\* and a call with a tuple and no dict returned with one DECREF
C33_Witness ==
  /\ fq.pc = "returned"
  /\ \/ /\ fq.args = CallArgs /\ fq.kwargs = CallKwargs
        /\ fq.kept = {CallArgs}
        /\ Len(fq.log) = 4
        /\ fq.rc[CallArgs] = fq.rc0[CallArgs]
        /\ fq.rc[CallKwargs] = fq.rc0[CallKwargs] - 1
     \/ /\ fq.args = CallArgs /\ fq.kwargs = NULL
        /\ Len(fq.log) = 3 /\ fq.rc[CallArgs] = 0

\* the step appended x behind the size items of the list, which it kept in
\* their order; it doubled a full capacity and left any other alone; it
\* counted one more reference to x
Appended(x) ==
  /\ ls'.size = ls.size + 1
  /\ ls'.items[ls.size] = x
  /\ \A j \in 0..(ls.size - 1) : ls'.items[j] = ls.items[j]
  /\ ls.size = ls.capacity => ls'.capacity = 2 * ls.capacity
  /\ ls.size < ls.capacity =>
       (ls'.capacity = ls.capacity /\ ls'.buf = ls.buf)
  /\ ls'.rc[x] = ls.rc[x] + 1

\* C34: every append, made through NgAppend or through the bound method,
\* puts the item behind the items of the list and preserves them in order,
\* doubles the capacity when it finds size = capacity and leaves it
\* unchanged otherwise, and increments the refcount of the item exactly
\* once.
C34_Appends ==
  [][\A x \in Elems, ok \in BOOLEAN :
       (ListAppend(x, ok) \/ CallAppend(x, ok)) => Appended(x)]_vars

\* what append does: the above whenever the new buffer is granted; when it
\* is refused, the list is as before and the item is counted once more
AppendsWhenGranted ==
  [][\A x \in Elems :
       /\ (ListAppend(x, TRUE) \/ CallAppend(x, TRUE)) => Appended(x)
       /\ ((ListAppend(x, FALSE) \/ CallAppend(x, FALSE))
             /\ ls.size = ls.capacity) =>
            /\ ls'.size = ls.size /\ ls'.capacity = ls.capacity
            /\ ls'.items = ls.items /\ ls'.err = ""
            /\ ls'.rc[x] = ls.rc[x] + 1]_vars

\* three appends to the list of alloc_list_empty(1) doubled the capacity
\* twice and kept the order
ThreeAppended ==
  /\ ls.nops = 4 /\ ls.last.op = "append"
  /\ ls.size = 3 /\ ls.capacity = 4 /\ ls.bufs = 3
  /\ Slots(ls) = <<1, 2, 1>>

\* the slot before slot t, cyclically
SlotBefore(t) == (t - 1) % d.capacity

\* C35: in every reachable dict, after any sequence of dict_set, dict_del
\* and resizes, the psl of every occupied slot is 1 plus the cyclic
\* distance from its home index (cached hash & mask) to the slot, every
\* slot from the home index up to the slot is occupied, and the psl of an
\* occupied slot is at most 1 more than the psl of the slot before it.
C35_PslIsDistance ==
  d.live =>
    \A t \in DOMAIN d.entries : d.entries[t].psl > 0 =>
      LET h0 == HomeIdx(d.entries[t].hash, d.mask)
          n  == (t - h0) % d.capacity
      IN  /\ d.entries[t].psl = n + 1
          /\ \A m \in 0..n : d.entries[ProbeSlot(h0, m)].psl > 0
          /\ d.entries[t].psl <= d.entries[SlotBefore(t)].psl + 1

\* after a resize, a dict_del has shifted two entries back, one of them
\* from slot 0 to the last slot, and an entry is stored in the last slot
\* with psl 2
C35_Witness ==
  /\ d.live /\ d.capacity > DICT_INITIAL_CAPACITY
  /\ lastdel.found /\ lastdel.shifted = 2
  /\ d.entries[d.mask].psl = 2
  /\ HomeIdx(d.entries[d.mask].hash, d.mask) = d.mask - 1
  /\ d.entries[0].psl = 0

\* the slot of the list that set_item with the index writes, or -1 when the
\* index is not one of the list
SlotOf(index) ==
  LET at == IF index < 0 THEN index + ls.size ELSE index
  IN  IF 0 <= at /\ at < ls.size THEN at ELSE 0 - 1

\* C36: set_item on the list at a valid index whose slot holds another
\* pointer than the value raises the refcount of the value by 1, stores the
\* value in the slot and lowers the refcount of the replaced element by 1;
\* size, capacity, the buffer and the other slots stay.  When the slot holds
\* the value already, nothing changes.
C36_SetItem ==
  [][\A index \in Indexes, x \in Elems :
       (SetItem("list", index, x) /\ SlotOf(index) >= 0) =>
         LET at  == SlotOf(index)
             old == ls.items[at]
         IN  /\ ls'.err = "" /\ ~ls'.uaf
             /\ ls'.size = ls.size /\ ls'.capacity = ls.capacity
             /\ ls'.buf = ls.buf /\ ls'.dict = ls.dict
             /\ ls'.refcount = ls.refcount /\ ls'.live = ls.live
             /\ IF old # x
                  THEN /\ ls'.items = [ls.items EXCEPT ![at] = x]
                       /\ ls'.rc = [ls.rc EXCEPT ![x] = @ + 1, ![old] = @ - 1]
                       /\ ls'.freed =
                            ls.freed \cup (IF ls.rc[old] = 1 THEN {old} ELSE {})
                ELSE /\ ls'.items = ls.items
                     /\ ls'.rc = ls.rc /\ ls'.freed = ls.freed
    ]_vars

\* set_item(-2, 2) on the list [1, 1, 2] stored 2 in slot 1, with one
\* reference more to 2 and one less to 1
C36_Witness ==
  /\ ls.last.op = "set_item" /\ ls.last.on = "list"
  /\ ls.last.a = 0 - 2 /\ ls.last.b = 2
  /\ ls.err = ""
  /\ Slots(ls) = <<1, 2, 2>>
  /\ ls.rc[2] > ls.rc[1]

\* the item slots that point to o: those of the list while it is live, and
\* those of the second list
SlotsOn(S, o) ==
  (IF S.made /\ S.refcount > 0 THEN CountIn(Slots(S), o) ELSE 0)
    + CountIn(S.other, o)

SlotsCounted(S) ==
  \A o \in Elems : o \notin S.freed => S.rc[o] >= SlotsOn(S, o)

\* C37: the refcount of every live object is at least the number of item
\* slots of the live lists that point to it, after any sequence of append,
\* extend, set_item, pop, remove, clear and the teardown of the list.
C37_SlotsCounted == SlotsCounted(ls)

\* extend(l, other) raises the refcount of each object by the number of
\* slots of other that hold it
ExtendCounts ==
  [][\A ok \in BOOLEAN :
       (ListExtend(ok) /\ ls'.err = "") =>
         \A o \in Elems : ls'.rc[o] = ls.rc[o] + CountIn(ls.other, o)
    ]_vars

\* what NgLen was called with
LenCalled == "obj" \in DOMAIN fq /\ fq.args # NULL /\ fq.argc >= 1

\* C38: NgLen on a list, a tuple or a string returns a new int equal to the
\* number of elements, for a string of code points, and leaves the refcount
\* of the measured object and of the argument tuple as they were; on an
\* object of another tag it calls the __len__ member and ends with a
\* TypeError when the object has none.
C38_Len ==
  [][(LenEnter /\ LenCalled) =>
       IF fq.obj.tag \in HasSize
         THEN /\ fq'.pc = "returned"
              /\ fq'.ret = IntObj(Len(fq.obj.elems))
              /\ fq'.rc[LenObj] = fq.rc[LenObj]
              /\ fq'.rc[CallArgs] = fq.rc[CallArgs]
       ELSE IF dict_get(fq.obj.dict, LenName, {}, FALSE) = NULL
         THEN fq'.pc = "exited" /\ fq'.err = LenNone
       ELSE fq'.func = CallFn /\
            (IF fq.native_ptr = NULL THEN fq'.pc = "exited"
             ELSE fq'.pc = "native" /\
                  fq'.log = <<Event("native", fq.args, fq.kwargs)>>)
    ]_vars

\* NgLen on a list, a tuple or a string returns a new int equal to the
\* number of elements, for a string of code points, leaves the refcount of
\* the argument tuple and lowers that of the measured object by one
LenReturnsSize ==
  [][(LenEnter /\ LenCalled /\ fq.obj.tag \in HasSize) =>
       /\ fq'.pc = "returned"
       /\ fq'.ret = IntObj(Len(fq.obj.elems))
       /\ fq'.rc = [fq.rc EXCEPT ![LenObj] = @ - 1]
       /\ fq'.freed = IF fq.rc[LenObj] = 1 THEN {LenObj} ELSE {}
    ]_vars

\* NgLen on an instance calls the function bound to __len__ with the
\* argument tuple and returns what it returns, and ends with the TypeError
\* when the __dict__ binds none
LenDelegates ==
  [][/\ (LenEnter /\ LenCalled /\ fq.obj.tag \notin HasSize) =>
          IF dict_get(fq.obj.dict, LenName, {}, FALSE) = NULL
            THEN fq'.pc = "exited" /\ fq'.rc = fq.rc
                 /\ fq'.err = LenNone
          ELSE fq'.func = CallFn /\
               (IF fq.native_ptr = NULL THEN fq'.pc = "exited"
                ELSE fq'.pc = "native" /\
                     fq'.log = <<Event("native", fq.args, fq.kwargs)>>)
     /\ \A result \in {NULL, CallArgs + CallKwargs} :
          LenNativeReturns(result) =>
            /\ fq'.pc = "returned" /\ fq'.ret = result
            /\ fq'.rc[CallFn] = fq.rc0[CallFn]
            /\ fq'.rc[LenObj] = fq.rc0[LenObj]
    ]_vars

\* NgLen returned 2 for the string of the code points 65 and 128512, which
\* the tuple held the only reference to, and the string is released
LenOfString ==
  /\ LenCalled /\ fq.pc = "returned"
  /\ fq.obj.tag = OBJ_TYPE_STRING /\ fq.obj.elems = <<65, 128512>>
  /\ fq.ret = IntObj(2)
  /\ LenObj \in fq.freed

\* the __len__ of an instance has returned through NgCall
LenOfInstance ==
  /\ LenCalled /\ fq.pc = "returned"
  /\ fq.obj.tag = OBJ_TYPE_INSTANCE
  /\ fq.ret = CallArgs + CallKwargs

\* the block numbers on the free list of page a
FreeBlocks(P, a) == {P.pages[a].free[i] : i \in DOMAIN P.pages[a].free}

\* the blocks of page a that are handed out
UsedBlocks(P, a) == {b[2] : b \in {x \in P.out : x[1] = a}}

\* every block handed out is a slot of a page of the pool and is not on the
\* free list of that page, no block is twice on a free list, and the
\* used_count of each page is the number of its blocks handed out and,
\* with the length of its free list, adds up to blocks_per_page
BlocksAccounted ==
  /\ \A b \in pool.out :
       b[1] \in LivePages(pool) /\ b[2] \in 1..pool.blocks_per_page
  /\ \A a \in LivePages(pool) :
       /\ FreeBlocks(pool, a) \cap UsedBlocks(pool, a) = {}
       /\ Cardinality(FreeBlocks(pool, a)) = Len(pool.pages[a].free)
       /\ pool.pages[a].used_count = Cardinality(UsedBlocks(pool, a))
       /\ pool.pages[a].used_count + Len(pool.pages[a].free)
            = pool.blocks_per_page

\* C39: dynamic_pool_alloc returns a block that is not handed out at the
\* time of the call; after any sequence of allocs and frees of live blocks
\* the blocks handed out are different slots of the pages of the pool,
\* used_count of each page is the number of its slots handed out, and
\* used_count plus the length of the free list is blocks_per_page.
C39_PoolBlocks ==
  /\ []BlocksAccounted
  /\ [][PoolAlloc =>
          /\ dynamic_pool_alloc(pool).ptr \notin pool.out
          /\ pool'.out = pool.out \cup {dynamic_pool_alloc(pool).ptr}
          /\ Cardinality(pool'.out) = Cardinality(pool.out) + 1
       ]_vars

\* an alloc handed out block 3 of a page again after blocks 1 and 3 of the
\* full page were freed; blocks 2 and 3 are handed out and block 1 is free
C39_Witness ==
  /\ pool.last = "alloc" /\ pool.blocks_per_page = MaxBlocksPerPage
  /\ \E a \in LivePages(pool) :
       /\ pool.pages[a].free = <<1>>
       /\ UsedBlocks(pool, a) = {2, 3}
  /\ Cardinality(LivePages(pool)) >= 2

(***************************************************************************)
(* The number of iterations of the probe loops.  Each operator follows its *)
(* loop for as many iterations as the table has slots and gives the number *)
(* of the iteration in which the loop returns, or 0 when the loop is still *)
(* running after that many.                                                *)
(***************************************************************************)
\* the while loop of dict_set
RECURSIVE SetTurns(_, _, _, _, _, _, _, _, _)
SetTurns(es, mask, idx, entry, key, h, fr, u, n) ==
  IF n > mask + 1 THEN 0
  ELSE LET curr == es[idx] IN
    IF curr.psl = 0 THEN n
    ELSE IF curr.hash = h /\ ObjectsEqual(curr.key, key, fr, u) THEN n
    ELSE LET sw  == entry.psl > curr.psl
             es2 == IF sw THEN [es EXCEPT ![idx] = entry] ELSE es
             e2  == IF sw THEN curr ELSE entry
         IN  SetTurns(es2, mask, (idx + 1) % (mask + 1),
                      [e2 EXCEPT !.psl = @ + 1], key, h, fr, u, n + 1)

\* the while loop of dict_get; psl is the number of the iteration
RECURSIVE GetTurns(_, _, _, _, _, _, _, _)
GetTurns(es, mask, idx, psl, key, h, fr, u) ==
  IF psl > mask + 1 THEN 0
  ELSE LET curr == es[idx] IN
    IF curr.psl = 0 THEN psl
    ELSE IF curr.hash = h /\ ObjectsEqual(curr.key, key, fr, u) THEN psl
    ELSE IF curr.psl < psl THEN psl
    ELSE GetTurns(es, mask, (idx + 1) % (mask + 1), psl + 1, key, h, fr, u)

\* the inner while loop of dict_del, entered at the slot idx of the match
RECURSIVE ShiftTurns(_, _, _, _)
ShiftTurns(es, mask, idx, n) ==
  IF n > mask + 1 THEN 0
  ELSE LET next_idx == (idx + 1) % (mask + 1) IN
    IF es[next_idx].psl <= 1 THEN n
    ELSE ShiftTurns([es EXCEPT ![idx] = [es[next_idx] EXCEPT !.psl = @ - 1]],
                    mask, next_idx, n + 1)

\* the outer while loop of dict_del: its iterations and, when it found the
\* key, those of the inner loop (else 1, for none is run)
RECURSIVE DelTurns(_, _, _, _, _, _, _, _)
DelTurns(es, mask, idx, psl, key, h, fr, u) ==
  IF psl > mask + 1 THEN [outer |-> 0, inner |-> 1]
  ELSE LET curr == es[idx] IN
    IF curr.psl = 0 \/ psl > curr.psl THEN [outer |-> psl, inner |-> 1]
    ELSE IF curr.hash = h /\ ObjectsEqual(curr.key, key, fr, u)
      THEN [outer |-> psl, inner |-> ShiftTurns(es, mask, idx, 1)]
    ELSE DelTurns(es, mask, (idx + 1) % (mask + 1), psl + 1, key, h, fr, u)

\* the while loop of hmap_put
RECURSIVE HmapPutTurns(_, _, _, _, _, _)
HmapPutTurns(es, mask, idx, entry_to_insert, key, n) ==
  IF n > mask + 1 THEN 0
  ELSE LET curr == es[idx] IN
    IF curr.psl = 0 THEN n
    ELSE IF curr.key = key THEN n
    ELSE LET sw  == entry_to_insert.psl > curr.psl
             es2 == IF sw THEN [es EXCEPT ![idx] = entry_to_insert] ELSE es
             e2  == IF sw THEN curr ELSE entry_to_insert
         IN  HmapPutTurns(es2, mask, (idx + 1) % (mask + 1),
                          [e2 EXCEPT !.psl = @ + 1], key, n + 1)

\* the while loop of hmap_get
RECURSIVE HmapGetTurns(_, _, _, _, _)
HmapGetTurns(es, mask, idx, current_psl, key) ==
  IF current_psl > mask + 1 THEN 0
  ELSE LET curr == es[idx] IN
    IF curr.psl = 0 THEN current_psl
    ELSE IF curr.key = key THEN current_psl
    ELSE IF curr.psl < current_psl THEN current_psl
    ELSE HmapGetTurns(es, mask, (idx + 1) % (mask + 1), current_psl + 1, key)

\* the outer while loop of hmap_remove, and the inner one when the key is
\* found
RECURSIVE HmapRemoveTurns(_, _, _, _, _)
HmapRemoveTurns(es, mask, idx, current_psl, key) ==
  IF current_psl > mask + 1 THEN [outer |-> 0, inner |-> 1]
  ELSE LET curr == es[idx] IN
    IF curr.psl = 0 \/ current_psl > curr.psl
      THEN [outer |-> current_psl, inner |-> 1]
    ELSE IF curr.key = key
      THEN [outer |-> current_psl, inner |-> ShiftTurns(es, mask, idx, 1)]
    ELSE HmapRemoveTurns(es, mask, (idx + 1) % (mask + 1), current_psl + 1,
                         key)

\* the table has an empty slot: count <= threshold < capacity, and count is
\* the number of occupied slots
HasEmptySlot(t) ==
  /\ t.count <= t.threshold /\ t.threshold < t.capacity
  /\ t.count = Cardinality({i \in DOMAIN t.entries : t.entries[i].psl > 0})
  /\ \E i \in DOMAIN t.entries : t.entries[i].psl = 0

\* the dict as dict_set probes it: after the resize when one is due
AtSetProbe(dd) ==
  IF dd.count >= dd.threshold THEN dict_resize(dd, dd.capacity * 2) ELSE dd

\* the symbol table as hmap_put probes it
AtPutProbe(map) ==
  IF map.count >= map.threshold THEN _hmap_resize(map, map.capacity * 2)
  ELSE map

\* the loops of dict_set, dict_get and dict_del on the dict dd return
\* within as many iterations as the table has slots, for the key and for
\* either outcome u of a comparison with a released key
DictProbesEnd(dd, key, u) ==
  LET h  == hash(key)
      d1 == AtSetProbe(dd)
      dl == DelTurns(dd.entries, dd.mask, HomeIdx(h, dd.mask), 1, key, h,
                     freed, u)
  IN  /\ SetTurns(d1.entries, d1.mask, HomeIdx(h, d1.mask),
                  [key |-> key, value |-> NULL, hash |-> h, psl |-> 1],
                  key, h, freed, u, 1) >= 1
      /\ GetTurns(dd.entries, dd.mask, HomeIdx(h, dd.mask), 1, key, h,
                  freed, u) >= 1
      /\ dl.outer >= 1 /\ dl.inner >= 1

HmapProbesEnd(map, key) ==
  LET m1 == AtPutProbe(map)
      rm == HmapRemoveTurns(map.entries, map.mask, HmapHome(key, map.mask),
                            1, key)
  IN  /\ HmapPutTurns(m1.entries, m1.mask, HmapHome(key, m1.mask),
                      [key |-> key, value |-> NULL, psl |-> 1], key, 1) >= 1
      /\ HmapGetTurns(map.entries, map.mask, HmapHome(key, map.mask), 1,
                      key) >= 1
      /\ rm.outer >= 1 /\ rm.inner >= 1

\* C40: in every reachable state the dict and the symbol table have an
\* empty slot (count <= threshold < capacity) when a probe runs, also the
\* probe of dict_set and hmap_put that follows a resize, and the probe
\* loops of dict_set, dict_get, dict_del, hmap_put, hmap_get and
\* hmap_remove return for every key within as many iterations as the table
\* has slots.
C40_ProbesEnd ==
  /\ d.live =>
       /\ HasEmptySlot(d) /\ HasEmptySlot(AtSetProbe(d))
       /\ \A key \in Keys, u \in BOOLEAN : DictProbesEnd(d, key, u)
  /\ HasEmptySlot(symbol_table.map)
  /\ HasEmptySlot(AtPutProbe(symbol_table.map))
  /\ \A key \in HKeys : HmapProbesEnd(symbol_table.map, key)

\* a dict of 4 slots with one empty slot, which the next insert resizes,
\* and a key that dict_get finds in its third iteration
C40_Witness ==
  /\ d.live /\ d.capacity > DICT_INITIAL_CAPACITY
  /\ d.count = d.threshold
  /\ Cardinality({i \in DOMAIN d.entries : d.entries[i].psl = 0}) = 1
  /\ \E key \in Keys :
       /\ GetTurns(d.entries, d.mask, HomeIdx(hash(key), d.mask), 1, key,
                   hash(key), freed, FALSE) = 3
       /\ dict_get(d, key, freed, FALSE) # NULL

\* a symbol table with one empty slot and a key that hmap_get passes two
\* slots for
HmapNearlyFull ==
  /\ symbol_table.map.count = symbol_table.map.threshold
  /\ symbol_table.map.count = symbol_table.map.capacity - 1
  /\ \E key \in HKeys :
       HmapGetTurns(symbol_table.map.entries, symbol_table.map.mask,
                    HmapHome(key, symbol_table.map.mask), 1, key) >= 3

====
